---- MODULE Spec2Model ----
(***************************************************************************)
(* Credential lifecycle of the hosted multi-user Spotify MCP server:       *)
(* users / token pairs / sessions (auth.py, models.py), the per-user       *)
(* client resolver with token refresh (spotify_client.py), the OAuth       *)
(* callback (web_auth.py) and the token hand-over between the /claude-mcp  *)
(* proxy route and the tools (spotify_server_multiuser.py).                *)
(*                                                                         *)
(* Time is counted in whole seconds.  Plaintext tokens are natural         *)
(* numbers; a Fernet ciphertext is the symbolic pair (key, plaintext).     *)
(***************************************************************************)
EXTENDS Integers, Sequences, FiniteSets, TLC

\* ------------------------------------------------------------------ bounds
NResolvers == 2
NCallbacks == 2
NRequests == 2
NLookups == 2
NKeyCalls == 2
MaxPairs == 2
MaxTicks == 1
MaxNow == 2
MaxLen == 3

\* --------------------------------------------------------------- constants
BufferMinutes == 5
BufferSecs == BufferMinutes * 60
HourSecs == 12 * BufferSecs
SessionDays == 30
DaySecs == 24 * HourSecs

\* ---------------------------------------------------------------- datetime
\* A Python datetime: wall-clock seconds, and the UTC offset when it is aware.
DateTime(w, a, o) == [wall |-> w, aware |-> a, off |-> o]

\* datetime.now(timezone.utc) when the clock reads c
utcnow(c) == DateTime(c, TRUE, 0)

\* dt + timedelta(seconds = s)
plus_seconds(dt, s) == [dt EXCEPT !.wall = dt.wall + s]

\* dt.replace(tzinfo = timezone.utc)
replace_tzinfo_utc(dt) == [dt EXCEPT !.aware = TRUE, !.off = 0]

\* the instant an aware datetime denotes (aware datetimes compare by instant)
Instant(dt) == dt.wall - dt.off

\* a DateTime column (no timezone) keeps the wall clock and drops tzinfo
ToDb(dt) == DateTime(dt.wall, FALSE, 0)

tokens_need_refresh_strict(expires_at, c) ==
    LET buffer_time == plus_seconds(utcnow(c), BufferSecs)
        e == IF ~expires_at.aware THEN replace_tzinfo_utc(expires_at) ELSE expires_at
    IN  Instant(e) < Instant(buffer_time)

tokens_need_refresh_always(expires_at, c) == TRUE

\* auth.tokens_need_refresh, with the clock reading c of datetime.now()
tokens_need_refresh(expires_at, c) ==
    LET buffer_time == plus_seconds(utcnow(c), BufferSecs)
        e == IF ~expires_at.aware THEN replace_tzinfo_utc(expires_at) ELSE expires_at
    IN  Instant(e) <= Instant(buffer_time)

\* ------------------------------------------------------------------ cipher
\* models.ENCRYPTION_KEY of the running process; OldKey is the key of an
\* earlier process (a generated development key is lost at restart).
ENCRYPTION_KEY == "k1"
OldKey == "k0"

encrypt_token(token) == [key |-> ENCRYPTION_KEY, pt |-> token]

\* Fernet.decrypt raises InvalidToken unless the ciphertext was made with the key
CanDecrypt(c) == c.key = ENCRYPTION_KEY
decrypt_token_truncating(c) == c.pt \div 2

decrypt_token(c) == c.pt

VARIABLES
    now,                \* the wall clock, seconds
    arg_expires_at,     \* tokens_need_refresh: the argument
    ret_needs_refresh,  \* tokens_need_refresh: << >> before the call, then <<result>>
    users,              \* table users
    tokens,             \* table spotify_tokens
    sessions,           \* table user_sessions
    issued,             \* upstream: number of tokens handed out so far
    res,                \* the calls of get_user_spotify_client, one per caller
    cb,                 \* the requests to /auth/callback
    current_request_token,  \* mcp._current_request_token: << >> while the attribute is unset
    req,                \* the tool-call requests to /claude-mcp and /mcp
    lk,                 \* the calls of get_session_by_api_key, one per caller
    gk,                 \* the calls of get_user_by_api_key, one per caller
    call,               \* the operation on the store that ran last, with its arguments
    stored,             \* per user, the arguments of the latest store_spotify_tokens call
    mw,                 \* the requests passing through MCPAuthMiddleware
    gen                 \* a run of generate_api_key or generate_user_id

storeVars == <<users, tokens, sessions>>
freshVars == <<arg_expires_at, ret_needs_refresh>>
proxyVars == <<current_request_token, req>>
opVars == <<lk, gk, call, stored, mw, gen>>
handlerVars == <<issued, res, cb, current_request_token, req, mw, gen>>
vars == <<now, arg_expires_at, ret_needs_refresh, users, tokens, sessions, issued, res,
          cb, current_request_token, req, lk, gk, call, stored, mw, gen>>

\* ------------------------------------------------------------------- store
UserIds == {"u1", "u2"}
None == [none |-> TRUE]

\* the row of models.User made for user_id u at time c
UserRow(u, key, sp, name, mail, c) ==
    [user_id |-> u, api_key |-> key, spotify_user_id |-> sp, display_name |-> name,
     email |-> mail, created_at |-> ToDb(utcnow(c)), last_active |-> ToDb(utcnow(c))]

\* the row of models.SpotifyToken
TokenRow(u, access, refresh, expires_at, scope) ==
    [user_id |-> u, access_token |-> access, refresh_token |-> refresh,
     expires_at |-> ToDb(expires_at), scope |-> scope]

TokensOf(T, u) == {t \in T : t.user_id = u}

\* the row of models.UserSession made at time c
SessionRow(sid, u, key, c) ==
    [session_id |-> sid, user_id |-> u, api_key |-> key,
     created_at |-> ToDb(utcnow(c)), last_activity |-> ToDb(utcnow(c)),
     expires_at |-> ToDb(plus_seconds(utcnow(c), SessionDays * DaySecs))]

SessionsOf(S, u) == {x \in S : x.user_id = u}

ActiveSessions_AnyExpiry(S, key, c) == {x \in S : x.api_key = key}

\* the rows the query of auth.get_session_by_api_key matches at time c
ActiveSessions(S, key, c) ==
    {x \in S : x.api_key = key /\ x.expires_at.wall > utcnow(c).wall}

\* the users as they are once two accounts have registered
InitUsers ==
    {UserRow("u1", "key1", "sp1", "name1", "mail1", 0),
     UserRow("u2", "key2", "sp2", "name1", "mail1", 0)}

\* a text stored under no key is readable as it stands
store_spotify_tokens_plain(T, user_id, access_token, refresh_token, expires_at, scope) ==
    (T \ TokensOf(T, user_id)) \cup
        {TokenRow(user_id, [key |-> "", pt |-> access_token],
                  [key |-> "", pt |-> refresh_token], expires_at, scope)}

store_spotify_tokens_merge(T, user_id, access_token, refresh_token, expires_at, scope) ==
    LET encrypted_access == encrypt_token(access_token)
        encrypted_refresh == encrypt_token(refresh_token)
        existing == TokensOf(T, user_id)
    IN  IF existing # {}
        THEN LET existing_tokens == CHOOSE t \in existing : TRUE
             IN  (T \ {existing_tokens}) \cup
                   {[existing_tokens EXCEPT !.access_token = encrypted_access,
                                            !.refresh_token = encrypted_refresh,
                                            !.expires_at = ToDb(expires_at),
                                            !.scope = IF scope = "null" THEN @ ELSE scope]}
        ELSE T \cup {TokenRow(user_id, encrypted_access, encrypted_refresh, expires_at, scope)}

\* auth.store_spotify_tokens: the table after the commit
store_spotify_tokens(T, user_id, access_token, refresh_token, expires_at, scope) ==
    LET encrypted_access == encrypt_token(access_token)
        encrypted_refresh == encrypt_token(refresh_token)
        existing == TokensOf(T, user_id)
    IN  IF existing # {}
        THEN LET existing_tokens == CHOOSE t \in existing : TRUE
             IN  (T \ {existing_tokens}) \cup
                   {[existing_tokens EXCEPT !.access_token = encrypted_access,
                                            !.refresh_token = encrypted_refresh,
                                            !.expires_at = ToDb(expires_at),
                                            !.scope = scope]}
        ELSE T \cup {TokenRow(user_id, encrypted_access, encrypted_refresh, expires_at, scope)}

\* auth.update_user_tokens: store_spotify_tokens without a scope
update_user_tokens(T, user_id, access_token, refresh_token, expires_at) ==
    store_spotify_tokens(T, user_id, access_token, refresh_token, expires_at, "null")

\* auth.get_user_tokens: None when there is no row or a token does not decrypt
get_user_tokens(T, user_id) ==
    LET rows == TokensOf(T, user_id)
    IN  IF rows = {} THEN None
        ELSE LET t == CHOOSE r \in rows : TRUE
             IN  IF CanDecrypt(t.access_token) /\ CanDecrypt(t.refresh_token)
                 THEN [access_token |-> decrypt_token(t.access_token),
                       refresh_token |-> decrypt_token(t.refresh_token),
                       expires_at |-> t.expires_at]
                 ELSE None

\* ----------------------------------------------------- process populations
Callbacks == 1..NCallbacks
Requests == 1..NRequests

IdleCallback ==
    [pc |-> "idle", account |-> "", token_info |-> None, profile |-> None,
     user |-> None, api_key |-> "", created |-> "", deleted |-> {},
     has_code |-> FALSE, has_error |-> FALSE, upstream_calls |-> 0,
     outcome |-> "", status |-> 0]

CallbackIdle == cb = [c \in Callbacks |-> IdleCallback]

IdleRequest == [pc |-> "idle", route |-> "", key |-> "", user_context |-> None, status |-> 0]

ProxyIdle ==
    /\ current_request_token = << >>
    /\ req = [r \in Requests |-> IdleRequest]

\* the callers of get_session_by_api_key and of get_user_by_api_key
Lookups == 1..NLookups
KeyCalls == 1..NKeyCalls

IdleLookup == [pc |-> "idle", key |-> "", clock |-> 0, session |-> None, result |-> None]

IdleKeyCall ==
    [pc |-> "idle", handler |-> "", header |-> None, key |-> "", clock |-> 0,
     user |-> None, result |-> None, status |-> 0, error |-> "", io_failed |-> FALSE]

NoCall == [op |-> ""]

\* a request before MCPAuthMiddleware has seen it
IdleMiddleware ==
    [pc |-> "idle", type |-> "", path |-> "", header |-> None, token |-> << >>,
     api_key |-> "", auth_method |-> "", authenticated |-> FALSE, error |-> "",
     state |-> None, app_calls |-> 0]

\* a text as the generators build it: its length, its last character and
\* whether every character of it is an ASCII letter or digit
EmptyText == [len |-> 0, last |-> "", alnum |-> TRUE]

IdleGen == [fn |-> "", pc |-> "idle", args |-> << >>, length |-> 0, out |-> EmptyText]

OpsIdle ==
    /\ lk = [l \in Lookups |-> IdleLookup]
    /\ gk = [k \in KeyCalls |-> IdleKeyCall]
    /\ call = NoCall
    /\ stored = [u \in UserIds |-> None]
    /\ mw = [m \in Requests |-> IdleMiddleware]
    /\ gen = IdleGen

\* ------------------------------------------------- upstream token endpoint
ExpiresIn == {HourSecs}

\* the token_info of a successful refresh; the refresh_token key may be missing
TokenInfo(access, expires_in) == [access_token |-> access, expires_in |-> expires_in]
TokenInfoWithRefresh(access, refresh, expires_in) ==
    [access_token |-> access, refresh_token |-> refresh, expires_in |-> expires_in]

\* new_token_info.get('refresh_token', default)
get_refresh_token(info, default) ==
    IF "refresh_token" \in DOMAIN info THEN info.refresh_token ELSE default

\* --------------------------------- SpotifyClientManager.get_user_spotify_client
Resolvers == 1..NResolvers

\* spotipy.Spotify(auth = access_token)
Spotify(access_token) == [auth |-> access_token]

IdleCall ==
    [pc |-> "idle", user_id |-> "", token_data |-> None, clock |-> 0,
     new_token_info |-> None, result |-> None, path |-> "",
     refresh_calls |-> 0, writes |-> 0, text |-> None]

\* spotify_tools.get_user_spotify_client_for_tool and search_tracks_impl: the
\* text the tool returns. A ValueError of lines 12-17 is caught at line 38 and
\* its message put behind the prefix; with a client the text is that of the
\* search, whatever it found.
search_tracks_impl(user_context, client) ==
    IF user_context = None
    THEN [prefix |-> "Error searching tracks: ",
          message |-> <<"No user context provided">>]
    ELSE IF client = None
    THEN [prefix |-> "Error searching tracks: ",
          message |-> <<"Failed to get Spotify client.",
                        "Please re-authenticate at /auth/login">>]
    ELSE [prefix |-> "", message |-> <<"search results">>]

\* DEV_TOKEN of the environment; not set in a deployment
DEV_TOKEN == ""

\* spotify_server_multiuser.get_user_from_request
get_user_from_request(crt, U, T) ==
    LET token == IF crt # << >> THEN crt[1] ELSE DEV_TOKEN
        found == {x \in U : x.api_key = token}
    IN  IF crt = << >> /\ DEV_TOKEN = "" THEN None
        ELSE IF found = {} THEN None
        ELSE LET user == CHOOSE x \in found : TRUE
                 rows == TokensOf(T, user.user_id)
             IN  IF rows = {} THEN None
                 ELSE LET spotify_token == CHOOSE t \in rows : TRUE
                      IN  IF ~(CanDecrypt(spotify_token.access_token)
                                 /\ CanDecrypt(spotify_token.refresh_token))
                          THEN None
                          ELSE [user_id |-> user.user_id,
                                user |-> [user_id |-> user.user_id,
                                          spotify_user_id |-> user.spotify_user_id,
                                          display_name |-> user.display_name,
                                          spotify_access_token |->
                                              decrypt_token(spotify_token.access_token),
                                          spotify_refresh_token |->
                                              decrypt_token(spotify_token.refresh_token),
                                          token_expires_at |-> spotify_token.expires_at]]


InitAccess(u) == IF u = "u1" THEN 1 ELSE 3
InitRefresh(u) == InitAccess(u) + 1

\* the token rows a user may have when the calls start: none, a stale pair,
\* a fresh pair, or a pair written under the key of an earlier process
InitTokenRows(u) ==
    {{}} \cup
    {{TokenRow(u, encrypt_token(InitAccess(u)), encrypt_token(InitRefresh(u)),
               plus_seconds(utcnow(0), d), "scopes")} : d \in {BufferSecs, 2 * BufferSecs}} \cup
    {{TokenRow(u, [key |-> OldKey, pt |-> InitAccess(u)],
               [key |-> OldKey, pt |-> InitRefresh(u)],
               plus_seconds(utcnow(0), 2 * BufferSecs), "scopes")}}

ResolverIdle == res = [p \in Resolvers |-> IdleCall]

ResolverInit ==
    /\ now = 0
    /\ arg_expires_at = DateTime(0, FALSE, 0)
    /\ ret_needs_refresh = << >>
    /\ users = InitUsers
    /\ \E r1 \in InitTokenRows("u1"), r2 \in InitTokenRows("u2") :
          /\ \E t \in r2 : tokens_need_refresh(t.expires_at, 0) /\ CanDecrypt(t.access_token)
          /\ tokens = r1 \cup r2
    /\ sessions = {}
    /\ issued = 2 * Cardinality(UserIds)
    /\ ResolverIdle
    /\ CallbackIdle
    /\ ProxyIdle
    /\ OpsIdle

R_GetTokens_DefaultClient(p, u) ==
    /\ res[p].pc = "idle"
    /\ \A q \in Resolvers : q < p => res[q].pc # "idle"
    /\ LET token_data == get_user_tokens(tokens, u)
       IN  res' = [res EXCEPT ![p] =
                IF token_data = None
                THEN [@ EXCEPT !.pc = "done", !.user_id = u, !.result = Spotify(0),
                               !.path = "no_tokens",
                               !.text = search_tracks_impl([user_id |-> u], Spotify(0))]
                ELSE [@ EXCEPT !.pc = "check", !.user_id = u, !.token_data = token_data]]
    /\ UNCHANGED <<now, freshVars, storeVars, issued, cb, proxyVars, opVars>>

\* lines 66-72: get_user_tokens and the return None when there is no token data
R_GetTokens(p, u) ==
    /\ res[p].pc = "idle"
    /\ \A q \in Resolvers : q < p => res[q].pc # "idle"   \* callers are interchangeable
    /\ LET token_data == get_user_tokens(tokens, u)
       IN  res' = [res EXCEPT ![p] =
                IF token_data = None
                THEN [@ EXCEPT !.pc = "done", !.user_id = u, !.result = None,
                               !.path = "no_tokens",
                               !.text = search_tracks_impl([user_id |-> u], None)]
                ELSE [@ EXCEPT !.pc = "check", !.user_id = u, !.token_data = token_data]]
    /\ UNCHANGED <<now, freshVars, storeVars, issued, cb, proxyVars, opVars>>

\* lines 75-78 and 97: the freshness test; a fresh token is used as it is, for
\* a stale one the refresh request goes out
R_Check(p) ==
    /\ res[p].pc = "check"
    /\ res' = [res EXCEPT ![p] =
            IF tokens_need_refresh(res[p].token_data.expires_at, now)
            THEN [@ EXCEPT !.pc = "refreshing", !.clock = now,
                           !.refresh_calls = @ + 1]
            ELSE [@ EXCEPT !.pc = "done", !.clock = now, !.path = "fresh",
                           !.result = Spotify(res[p].token_data.access_token),
                           !.text = search_tracks_impl([user_id |-> res[p].user_id],
                                        Spotify(res[p].token_data.access_token))]]
    /\ UNCHANGED <<now, freshVars, storeVars, issued, cb, proxyVars, opVars>>

\* line 78: the upstream answers with a new access token and no refresh token
R_RefreshOk(p) ==
    /\ res[p].pc = "refreshing"
    /\ \E e \in ExpiresIn :
          res' = [res EXCEPT ![p].pc = "update",
                             ![p].new_token_info = TokenInfo(issued + 1, e)]
    /\ issued' = issued + 1
    /\ UNCHANGED <<now, freshVars, storeVars, cb, proxyVars, opVars>>

\* line 78: the upstream answers with a new access token and a new refresh token
R_RefreshRotate(p) ==
    /\ res[p].pc = "refreshing"
    /\ \E e \in ExpiresIn :
          res' = [res EXCEPT ![p].pc = "update",
                             ![p].new_token_info =
                                 TokenInfoWithRefresh(issued + 1, issued + 2, e)]
    /\ issued' = issued + 2
    /\ UNCHANGED <<now, freshVars, storeVars, cb, proxyVars, opVars>>

R_RefreshFail_PartialWrite(p) ==
    /\ res[p].pc = "refreshing"
    /\ tokens' = update_user_tokens(tokens, res[p].user_id, 0,
                     res[p].token_data.refresh_token, utcnow(now))
    /\ res' = [res EXCEPT ![p].pc = "done", ![p].result = None,
                          ![p].path = "refresh_failed",
                          ![p].text = search_tracks_impl([user_id |-> res[p].user_id], None)]
    /\ UNCHANGED <<now, freshVars, users, sessions, issued, cb, proxyVars, opVars>>

R_RefreshFail_Retry(p) ==
    /\ res[p].pc = "refreshing"
    /\ res' = [res EXCEPT ![p] =
            IF res[p].refresh_calls < 2
            THEN [@ EXCEPT !.refresh_calls = @ + 1]
            ELSE [@ EXCEPT !.pc = "done", !.result = None, !.path = "refresh_failed",
                           !.text = search_tracks_impl([user_id |-> res[p].user_id], None)]]
    /\ UNCHANGED <<now, freshVars, storeVars, issued, cb, proxyVars, opVars>>

\* lines 92-94: the upstream call raises
R_RefreshFail(p) ==
    /\ res[p].pc = "refreshing"
    /\ res' = [res EXCEPT ![p].pc = "done", ![p].result = None,
                          ![p].path = "refresh_failed",
                          ![p].text = search_tracks_impl([user_id |-> res[p].user_id], None)]
    /\ UNCHANGED <<now, freshVars, storeVars, issued, cb, proxyVars, opVars>>

\* what lines 81-87 write
RefreshedTokensDropOld(T, c) ==
    update_user_tokens(T, c.user_id, c.new_token_info.access_token,
        get_refresh_token(c.new_token_info, 0),
        plus_seconds(utcnow(now), c.new_token_info.expires_in))

RefreshedTokens(T, c) ==
    update_user_tokens(T, c.user_id, c.new_token_info.access_token,
        get_refresh_token(c.new_token_info, c.token_data.refresh_token),
        plus_seconds(utcnow(now), c.new_token_info.expires_in))

\* lines 81-90 and 97: the new pair is stored and the new access token used
R_Update(p) ==
    /\ res[p].pc = "update"
    /\ tokens' = RefreshedTokens(tokens, res[p])
    /\ res' = [res EXCEPT ![p].pc = "done", ![p].path = "refreshed",
                          ![p].writes = @ + 1,
                          ![p].result = Spotify(res[p].new_token_info.access_token),
                          ![p].text = search_tracks_impl([user_id |-> res[p].user_id],
                                          Spotify(res[p].new_token_info.access_token))]
    /\ UNCHANGED <<now, freshVars, users, sessions, issued, cb, proxyVars, opVars>>

\* lines 89-94 of auth.py and 92-94: the commit fails, the transaction is rolled back
R_UpdateFail(p) ==
    /\ res[p].pc = "update"
    /\ res' = [res EXCEPT ![p].pc = "done", ![p].result = None,
                          ![p].path = "store_failed",
                          ![p].text = search_tracks_impl([user_id |-> res[p].user_id], None)]
    /\ UNCHANGED <<now, freshVars, storeVars, issued, cb, proxyVars, opVars>>

\* spotify_server_multiuser.py 176-181: the search_tracks tool of a request
\* that carries the key of user u, when get_user_from_request finds no user
\* context for it; with a context the tool goes on to R_GetTokens
search_tracks(p, u) ==
    /\ res[p].pc = "idle"
    /\ \A q \in Resolvers : q < p => res[q].pc # "idle"
    /\ \E x \in users :
          /\ x.user_id = u
          /\ LET user_context == get_user_from_request(<<x.api_key>>, users, tokens)
             IN  /\ user_context = None
                 /\ res' = [res EXCEPT ![p] =
                        [@ EXCEPT !.pc = "done", !.user_id = u, !.path = "no_context",
                                  !.text = search_tracks_impl(user_context, None)]]
    /\ UNCHANGED <<now, freshVars, storeVars, issued, cb, proxyVars, opVars>>

Tick ==
    /\ now < MaxTicks * BufferSecs
    /\ now' = now + BufferSecs
    /\ UNCHANGED <<freshVars, storeVars, issued, res, cb, proxyVars, opVars>>

ResolverNext ==
    \/ \E p \in Resolvers, u \in UserIds : R_GetTokens(p, u)
    \/ \E p \in Resolvers : R_Check(p)
    \/ \E p \in Resolvers : R_RefreshOk(p)
    \/ \E p \in Resolvers : R_RefreshRotate(p)
    \/ \E p \in Resolvers : R_RefreshFail(p)
    \/ \E p \in Resolvers : R_Update(p)
    \/ \E p \in Resolvers : R_UpdateFail(p)
    \/ \E p \in Resolvers, u \in UserIds : search_tracks(p, u)
    \/ Tick

Spec == ResolverInit /\ [][ResolverNext]_vars

\* ------------------------------------------------- web_auth.auth_callback
Accounts == {"sp1", "sp2"}
ApiKeys == {"key1", "key2"}
SessionIds == {"s1", "s2"}

\* what sp.current_user() answers to callback c for account a: the name and
\* the mail of an account are not the same at every login
Profile(c, a) ==
    [id |-> a,
     display_name |-> IF c = 1 THEN "name1" ELSE "name2",
     email |-> IF c = 1 THEN "mail1" ELSE "mail2"]

\* the handler has returned: its locals are gone, the response stays
Returned(c, outcome, status) ==
    [c EXCEPT !.pc = "done", !.outcome = outcome, !.status = status,
              !.token_info = None, !.profile = None, !.deleted = {}]

Failed(c, status) == Returned(c, "Failed", status)

\* the state parameter of a callback URL: the value auth_login put into the
\* authorization URL (web_auth.py 26-29), none at all, or a value that no
\* login ever issued
States == {"issued", "", "forged"}

\* auth_callback lines 103-124: the query parameters code, state and error
\* are read; what the handler does with them
StartRequest_VerifyState(request, a, has_code, has_error, state) ==
    LET r == [request EXCEPT !.has_code = has_code, !.has_error = has_error]
    IN  IF has_error THEN Failed(r, 400)
        ELSE IF ~has_code THEN Failed(r, 400)
        ELSE IF state # "issued" THEN Failed(r, 400)
        ELSE [r EXCEPT !.pc = "exchange", !.account = a]

StartRequest(request, a, has_code, has_error, state) ==
    LET r == [request EXCEPT !.has_code = has_code, !.has_error = has_error]
    IN  IF has_error THEN Failed(r, 400)
        ELSE IF ~has_code THEN Failed(r, 400)
        ELSE [r EXCEPT !.pc = "exchange", !.account = a]

CB_Start_CodeFirst(c, a, has_code, has_error, state) ==
    /\ cb[c].pc = "idle"
    /\ \A d \in Callbacks : d < c => cb[d].pc # "idle"
    /\ cb' = [cb EXCEPT ![c] =
            LET request == [@ EXCEPT !.has_code = has_code, !.has_error = has_error]
            IN  IF has_code THEN [request EXCEPT !.pc = "exchange", !.account = a]
                ELSE Failed(request, 400)]
    /\ call' = IF call = NoCall THEN NoCall ELSE [op |-> "auth_callback", state |-> state]
    /\ UNCHANGED <<now, freshVars, storeVars, issued, res, proxyVars, lk, gk, stored, mw, gen>>

\* lines 103-124: the query parameters; a is the account the code belongs to.
\* Where the requests are logged (SpecState), call keeps the state parameter
\* of the request that came last
CB_Start(c, a, has_code, has_error, state) ==
    /\ cb[c].pc = "idle"
    /\ \A d \in Callbacks : d < c => cb[d].pc # "idle"   \* requests are interchangeable
    /\ cb' = [cb EXCEPT ![c] = StartRequest(@, a, has_code, has_error, state)]
    /\ call' = IF call = NoCall THEN NoCall ELSE [op |-> "auth_callback", state |-> state]
    /\ UNCHANGED <<now, freshVars, storeVars, issued, res, proxyVars, lk, gk, stored, mw, gen>>

\* the tokens the upstream hands out for the code of callback c: every
\* exchange gets tokens of its own
CodeAccess(c) == 2 * c - 1
CodeRefresh(c) == 2 * c

\* line 127: exchange_code_for_tokens answers
CB_ExchangeOk(c) ==
    /\ cb[c].pc = "exchange"
    /\ \E e \in ExpiresIn :
          cb' = [cb EXCEPT ![c].pc = "profile",
                           ![c].upstream_calls = @ + 1,
                           ![c].token_info =
                               [access_token |-> CodeAccess(c), refresh_token |-> CodeRefresh(c),
                                expires_in |-> e, scope |-> "scopes"]]
    /\ UNCHANGED <<now, freshVars, storeVars, issued, res, proxyVars, opVars>>

\* lines 127 and 258-265: exchange_code_for_tokens raises
CB_ExchangeFail(c) ==
    /\ cb[c].pc = "exchange"
    /\ cb' = [cb EXCEPT ![c] = Failed([@ EXCEPT !.upstream_calls = @ + 1], 500)]
    /\ UNCHANGED <<now, freshVars, storeVars, issued, res, proxyVars, opVars>>

\* lines 132-133: the profile of the account
CB_ProfileOk(c) ==
    /\ cb[c].pc = "profile"
    /\ cb' = [cb EXCEPT ![c].pc = "create_user",
                        ![c].upstream_calls = @ + 1,
                        ![c].profile = Profile(c, cb[c].account)]
    /\ UNCHANGED <<now, freshVars, storeVars, issued, res, proxyVars, opVars>>

CB_ProfileFail_HalfUser(c) ==
    /\ cb[c].pc = "profile"
    /\ users' = users \cup {UserRow("u1", "key1", cb[c].account, "", "", now)}
    /\ cb' = [cb EXCEPT ![c] = Failed([@ EXCEPT !.upstream_calls = @ + 1], 500)]
    /\ UNCHANGED <<now, freshVars, tokens, sessions, issued, res, proxyVars, opVars>>

\* lines 133 and 258-265: current_user raises
CB_ProfileFail(c) ==
    /\ cb[c].pc = "profile"
    /\ cb' = [cb EXCEPT ![c] = Failed([@ EXCEPT !.upstream_calls = @ + 1], 500)]
    /\ UNCHANGED <<now, freshVars, storeVars, issued, res, proxyVars, opVars>>

ExistingUsers(U, spotify_user_id) == {x \in U : x.spotify_user_id = spotify_user_id}

CB_CreateUserQuery_Overwrite(c) ==
    /\ cb[c].pc = "create_user"
    /\ LET existing == ExistingUsers(users, cb[c].profile.id)
       IN  IF existing # {}
           THEN LET existing_user == CHOOSE x \in existing : TRUE
                    updated == [existing_user EXCEPT
                                   !.display_name = cb[c].profile.display_name,
                                   !.email = cb[c].profile.email]
                IN  /\ users' = (users \ {existing_user}) \cup {updated}
                    /\ cb' = [cb EXCEPT ![c].pc = "store_tokens", ![c].user = updated,
                                        ![c].api_key = updated.api_key,
                                        ![c].created = "existing"]
           ELSE /\ users' = users
                /\ cb' = [cb EXCEPT ![c].pc = "insert_user"]
    /\ UNCHANGED <<now, freshVars, tokens, sessions, issued, res, proxyVars, opVars>>

\* auth.create_user lines 29-32: the query for the account, and the early
\* return of the row found
CB_CreateUserQuery(c) ==
    /\ cb[c].pc = "create_user"
    /\ LET existing == ExistingUsers(users, cb[c].profile.id)
       IN  cb' = [cb EXCEPT ![c] =
                IF existing # {}
                THEN LET existing_user == CHOOSE x \in existing : TRUE
                     IN  [@ EXCEPT !.pc = "store_tokens", !.user = existing_user,
                                   !.api_key = existing_user.api_key,
                                   !.created = "existing"]
                ELSE [@ EXCEPT !.pc = "insert_user"]]
    /\ UNCHANGED <<now, freshVars, storeVars, issued, res, proxyVars, opVars>>

\* the unique columns of models.User: user_id (primary key), api_key, spotify_user_id
UniqueUser(U, row) ==
    \A x \in U : /\ x.user_id # row.user_id
                 /\ x.api_key # row.api_key
                 /\ x.spotify_user_id # row.spotify_user_id

CB_CreateUserCommit_NoUnique(c, key, uid) ==
    /\ cb[c].pc = "insert_user"
    /\ LET user == UserRow(uid, key, cb[c].profile.id, cb[c].profile.display_name,
                           cb[c].profile.email, now)
       IN  /\ users' = users \cup {user}
           /\ cb' = [cb EXCEPT ![c].pc = "store_tokens", ![c].user = user,
                               ![c].api_key = key, ![c].created = "created"]
    /\ UNCHANGED <<now, freshVars, tokens, sessions, issued, res, proxyVars, opVars>>

\* auth.create_user lines 35-53: a random key and a random id; the INSERT is
\* refused when it breaks a unique column, and the exception ends the callback
CB_CreateUserCommit(c, key, uid) ==
    /\ cb[c].pc = "insert_user"
    /\ LET user == UserRow(uid, key, cb[c].profile.id, cb[c].profile.display_name,
                           cb[c].profile.email, now)
       IN  IF UniqueUser(users, user)
           THEN /\ users' = users \cup {user}
                /\ cb' = [cb EXCEPT ![c].pc = "store_tokens", ![c].user = user,
                                    ![c].api_key = key, ![c].created = "created"]
           ELSE /\ users' = users
                /\ cb' = [cb EXCEPT ![c] = Failed([@ EXCEPT !.created = "integrity_error"], 500)]
    /\ UNCHANGED <<now, freshVars, tokens, sessions, issued, res, proxyVars, opVars>>

\* lines 148-155: the tokens of this exchange are stored
CB_StoreTokens(c) ==
    /\ cb[c].pc = "store_tokens"
    /\ tokens' = store_spotify_tokens(tokens, cb[c].user.user_id,
                     cb[c].token_info.access_token, cb[c].token_info.refresh_token,
                     plus_seconds(utcnow(now), cb[c].token_info.expires_in),
                     cb[c].token_info.scope)
    /\ cb' = [cb EXCEPT ![c].pc = "session_delete"]
    /\ UNCHANGED <<now, freshVars, users, sessions, issued, res, proxyVars, opVars>>

\* auth.store_spotify_tokens lines 86-91 and web_auth.py 258-265: the commit of
\* the pair is refused by the store; the transaction of the pair is rolled
\* back, the exception ends the callback with the error page
CB_StoreTokensFail(c) ==
    /\ cb[c].pc = "store_tokens"
    /\ cb' = [cb EXCEPT ![c] = Failed(@, 500)]
    /\ UNCHANGED <<now, freshVars, storeVars, issued, res, proxyVars, opVars>>

\* auth.create_user_session line 159: the DELETE of the user's sessions runs
\* inside the transaction and takes the rows committed at that moment
CB_SessionDelete(c) ==
    /\ cb[c].pc = "session_delete"
    /\ cb' = [cb EXCEPT ![c].pc = "session_commit",
                        ![c].deleted = SessionsOf(sessions, cb[c].user.user_id)]
    /\ UNCHANGED <<now, freshVars, storeVars, issued, res, proxyVars, opVars>>

CB_SessionCommit_KeepOld(c, session_id) ==
    /\ cb[c].pc = "session_commit"
    /\ sessions' = sessions \cup
          {SessionRow(session_id, cb[c].user.user_id, cb[c].api_key, now)}
    /\ cb' = [cb EXCEPT ![c] = Returned(@, "Succeeded", 200)]
    /\ UNCHANGED <<now, freshVars, users, tokens, issued, res, proxyVars, opVars>>

\* auth.create_user_session lines 154 and 162-177: a random session_id; the
\* commit removes the rows of the DELETE and inserts the new row, or is refused
\* when session_id is the primary key of a remaining row
CB_SessionCommit(c, session_id) ==
    /\ cb[c].pc = "session_commit"
    /\ LET remaining == sessions \ cb[c].deleted
           session == SessionRow(session_id, cb[c].user.user_id, cb[c].api_key, now)
       IN  IF \A x \in remaining : x.session_id # session_id
           THEN /\ sessions' = remaining \cup {session}
                /\ cb' = [cb EXCEPT ![c] = Returned(@, "Succeeded", 200)]
           ELSE /\ sessions' = sessions
                /\ cb' = [cb EXCEPT ![c] = Failed(@, 500)]
    /\ UNCHANGED <<now, freshVars, users, tokens, issued, res, proxyVars, opVars>>

\* auth.create_user_session lines 172-178 and web_auth.py 258-265: the commit
\* of the session is refused by the store; the DELETE and the INSERT of the
\* transaction are rolled back, the exception ends the callback
CB_SessionFail(c) ==
    /\ cb[c].pc = "session_commit"
    /\ cb' = [cb EXCEPT ![c] = Failed(@, 500)]
    /\ UNCHANGED <<now, freshVars, storeVars, issued, res, proxyVars, opVars>>

\* time passes between the requests
CallbackTick ==
    /\ \A c \in Callbacks : cb[c].pc \in {"idle", "done"}
    /\ now < MaxTicks * BufferSecs
    /\ now' = now + BufferSecs
    /\ UNCHANGED <<freshVars, storeVars, issued, res, cb, proxyVars, opVars>>

CallbackInit ==
    /\ now = 0
    /\ arg_expires_at = DateTime(0, FALSE, 0)
    /\ ret_needs_refresh = << >>
    /\ users = {} /\ tokens = {} /\ sessions = {}
    /\ issued = 0
    /\ ResolverIdle
    /\ CallbackIdle
    /\ ProxyIdle
    /\ OpsIdle

\* the steps of the handler
CallbackSteps ==
    \/ \E c \in Callbacks, a \in Accounts, state \in States :
          CB_Start(c, a, TRUE, FALSE, state)
    \/ \E c \in Callbacks, a \in Accounts, has_code \in BOOLEAN, state \in States :
          CB_Start(c, a, has_code, TRUE, state)
    \/ \E c \in Callbacks, a \in Accounts, state \in States :
          CB_Start(c, a, FALSE, FALSE, state)
    \/ \E c \in Callbacks : CB_ExchangeOk(c)
    \/ \E c \in Callbacks : CB_ExchangeFail(c)
    \/ \E c \in Callbacks : CB_ProfileOk(c)
    \/ \E c \in Callbacks : CB_ProfileFail(c)
    \/ \E c \in Callbacks : CB_CreateUserQuery(c)
    \/ \E c \in Callbacks, key \in ApiKeys, uid \in UserIds : CB_CreateUserCommit(c, key, uid)
    \/ \E c \in Callbacks : CB_StoreTokens(c)
    \/ \E c \in Callbacks : CB_StoreTokensFail(c)
    \/ \E c \in Callbacks : CB_SessionDelete(c)
    \/ \E c \in Callbacks : CB_SessionFail(c)
    \/ \E c \in Callbacks, sid \in SessionIds : CB_SessionCommit(c, sid)

CallbackNext ==
    \/ CallbackSteps
    \/ CallbackTick

SpecCallback == CallbackInit /\ [][CallbackNext]_vars

\* the callbacks with the state parameter of the last request on record
StateInit ==
    /\ now = 0
    /\ arg_expires_at = DateTime(0, FALSE, 0)
    /\ ret_needs_refresh = << >>
    /\ users = {} /\ tokens = {} /\ sessions = {}
    /\ issued = 0
    /\ ResolverIdle
    /\ CallbackIdle
    /\ ProxyIdle
    /\ lk = [l \in Lookups |-> IdleLookup]
    /\ gk = [k \in KeyCalls |-> IdleKeyCall]
    /\ call = [op |-> "auth_callback", state |-> None]
    /\ stored = [u \in UserIds |-> None]
    /\ mw = [m \in Requests |-> IdleMiddleware]
    /\ gen = IdleGen

SpecState == StateInit /\ [][CallbackSteps]_vars

\* ------------------------- the tool-call requests (CLAUDE_COMPATIBILITY=true)
\* the keys a request may present; "" stands for no key at all
PresentedKeys == ApiKeys \cup {"bad"}

\* claude_mcp_proxy lines 238-244: the token of the URL is put on the server
\* object, then the request is forwarded to /mcp
ClaudeMcpProxy(r, token) ==
    /\ req[r].pc = "idle"
    /\ \A q \in Requests : q < r => req[q].pc # "idle"   \* requests are interchangeable
    /\ IF token = ""
       THEN /\ req' = [req EXCEPT ![r] = [@ EXCEPT !.pc = "done", !.route = "claude-mcp",
                                                   !.status = 401]]
            /\ UNCHANGED current_request_token
       ELSE /\ current_request_token' = <<token>>
            /\ req' = [req EXCEPT ![r] = [@ EXCEPT !.pc = "forwarding",
                                                   !.route = "claude-mcp", !.key = token]]
    /\ UNCHANGED <<now, freshVars, storeVars, issued, res, cb, opVars>>

\* lines 259-286 and 176-221: the forwarded request reaches /mcp and its tool
\* asks get_user_from_request for the user
ForwardedToolCall(r) ==
    /\ req[r].pc = "forwarding"
    /\ req' = [req EXCEPT ![r] =
            [@ EXCEPT !.pc = "done", !.status = 200,
                      !.user_context =
                          get_user_from_request(current_request_token, users, tokens)]]
    /\ UNCHANGED <<now, freshVars, storeVars, issued, res, cb, current_request_token, opVars>>

\* lines 176-221: a tool call sent to /mcp itself, its key in the Authorization header
DirectToolCall(r, key) ==
    /\ req[r].pc = "idle"
    /\ \A q \in Requests : q < r => req[q].pc # "idle"
    /\ req' = [req EXCEPT ![r] =
            [@ EXCEPT !.pc = "done", !.route = "mcp", !.key = key, !.status = 200,
                      !.user_context =
                          get_user_from_request(current_request_token, users, tokens)]]
    /\ UNCHANGED <<now, freshVars, storeVars, issued, res, cb, current_request_token, opVars>>

ProxyInit ==
    /\ now = 0
    /\ arg_expires_at = DateTime(0, FALSE, 0)
    /\ ret_needs_refresh = << >>
    /\ users = InitUsers
    /\ tokens = {TokenRow(u, encrypt_token(InitAccess(u)), encrypt_token(InitRefresh(u)),
                          plus_seconds(utcnow(0), HourSecs), "scopes") : u \in UserIds}
    /\ sessions = {}
    /\ issued = 2 * Cardinality(UserIds)
    /\ ResolverIdle
    /\ CallbackIdle
    /\ ProxyIdle
    /\ OpsIdle

ProxyNext ==
    \/ \E r \in Requests, token \in PresentedKeys \cup {""} : ClaudeMcpProxy(r, token)
    \/ \E r \in Requests : ForwardedToolCall(r)
    \/ \E r \in Requests, key \in PresentedKeys \cup {""} : DirectToolCall(r, key)

SpecProxy == ProxyInit /\ [][ProxyNext]_vars

\* ------------------------------------------- tokens_need_refresh on its own
Offsets == {0, HourSecs, -HourSecs}
Deltas == {BufferSecs - 1, BufferSecs, BufferSecs + 1, 0, 2 * BufferSecs}

FreshInit ==
    /\ now \in 0..MaxNow
    /\ \E d \in Deltas :
          \/ arg_expires_at = DateTime(now + d, FALSE, 0)
          \/ \E o \in Offsets : arg_expires_at = DateTime(now + d + o, TRUE, o)
    /\ ret_needs_refresh = << >>
    /\ users = {} /\ tokens = {} /\ sessions = {}
    /\ issued = 0
    /\ ResolverIdle
    /\ CallbackIdle
    /\ ProxyIdle
    /\ OpsIdle

ApplyNeedsRefresh ==
    /\ ret_needs_refresh = << >>
    /\ ret_needs_refresh' = <<tokens_need_refresh(arg_expires_at, now)>>
    /\ UNCHANGED <<now, arg_expires_at, storeVars, issued, res, cb, proxyVars, opVars>>

FreshNext == ApplyNeedsRefresh

SpecFresh == FreshInit /\ [][FreshNext]_vars

\* ------------------------------ get_session_by_api_key and the session sweep
\* the instants at which the sessions of the store expire
SessionExpiries == {0, BufferSecs, 2 * BufferSecs}

InitSessionId(u) == IF u = "u1" THEN "s1" ELSE "s2"
InitApiKey(u) == IF u = "u1" THEN "key1" ELSE "key2"

\* the session of user u that expires at e: it was made 30 days before e
InitSession(u, e) == SessionRow(InitSessionId(u), u, InitApiKey(u), e - SessionDays * DaySecs)

InitSessionRows(u) == {{}} \cup {{InitSession(u, e)} : e \in SessionExpiries}

\* every user holds a pair that is good for an hour
InitTokens ==
    {TokenRow(u, encrypt_token(InitAccess(u)), encrypt_token(InitRefresh(u)),
              plus_seconds(utcnow(0), HourSecs), "scopes") : u \in UserIds}

SessionInit ==
    /\ now = 0
    /\ arg_expires_at = DateTime(0, FALSE, 0)
    /\ ret_needs_refresh = << >>
    /\ users = InitUsers
    /\ tokens = InitTokens
    /\ \E r1 \in InitSessionRows("u1"), r2 \in InitSessionRows("u2") : sessions = r1 \cup r2
    /\ issued = 2 * Cardinality(UserIds)
    /\ ResolverIdle
    /\ CallbackIdle
    /\ ProxyIdle
    /\ OpsIdle

\* auth.get_session_by_api_key lines 185-188 and 190, 195: the query, with the
\* clock read for its filter; no row, and the call returns None
L_Query(l, key) ==
    /\ lk[l].pc = "idle"
    /\ \A m \in Lookups : m < l => lk[m].pc # "idle"   \* callers are interchangeable
    /\ LET found == ActiveSessions(sessions, key, now)
       IN  IF found = {}
           THEN lk' = [lk EXCEPT ![l] = [@ EXCEPT !.pc = "done", !.key = key,
                                                  !.clock = now, !.result = None]]
           ELSE \E session \in found :
                   lk' = [lk EXCEPT ![l] = [@ EXCEPT !.pc = "commit", !.key = key,
                                                     !.clock = now, !.session = session]]
    /\ call' = [op |-> "get_session_by_api_key"]
    /\ UNCHANGED <<now, freshVars, storeVars, handlerVars, gk, stored>>

L_Commit_Sliding(l) ==
    /\ lk[l].pc = "commit"
    /\ LET rows == {x \in sessions : x.session_id = lk[l].session.session_id}
       IN  IF rows = {}
           THEN /\ sessions' = sessions
                /\ lk' = [lk EXCEPT ![l] = [@ EXCEPT !.pc = "done", !.result = None]]
           ELSE \E row \in rows :
                   LET session ==
                         [row EXCEPT !.last_activity = ToDb(utcnow(now)),
                                     !.expires_at =
                                         ToDb(plus_seconds(utcnow(now), SessionDays * DaySecs))]
                   IN  /\ sessions' = (sessions \ {row}) \cup {session}
                       /\ lk' = [lk EXCEPT ![l] = [@ EXCEPT !.pc = "done",
                                                            !.result = session]]
    /\ call' = [op |-> "get_session_by_api_key"]
    /\ UNCHANGED <<now, freshVars, users, tokens, handlerVars, gk, stored>>

\* lines 192-199: last_activity is set and committed; the UPDATE of a row that
\* is no longer there raises (StaleDataError), which the except clause turns
\* into None
L_Commit(l) ==
    /\ lk[l].pc = "commit"
    /\ LET rows == {x \in sessions : x.session_id = lk[l].session.session_id}
       IN  IF rows = {}
           THEN /\ sessions' = sessions
                /\ lk' = [lk EXCEPT ![l] = [@ EXCEPT !.pc = "done", !.result = None]]
           ELSE \E row \in rows :
                   LET session == [row EXCEPT !.last_activity = ToDb(utcnow(now))]
                   IN  /\ sessions' = (sessions \ {row}) \cup {session}
                       /\ lk' = [lk EXCEPT ![l] = [@ EXCEPT !.pc = "done",
                                                            !.result = session]]
    /\ call' = [op |-> "get_session_by_api_key"]
    /\ UNCHANGED <<now, freshVars, users, tokens, handlerVars, gk, stored>>

cleanup_expired_sessions_strict(S, c) == {x \in S : ~(x.expires_at.wall < utcnow(c).wall)}

\* auth.cleanup_expired_sessions lines 207-209: the rows the DELETE leaves
cleanup_expired_sessions(S, c) == {x \in S : ~(x.expires_at.wall <= utcnow(c).wall)}

\* auth.cleanup_expired_sessions
Sweep ==
    /\ sessions' = cleanup_expired_sessions(sessions, now)
    /\ call' = [op |-> "cleanup_expired_sessions",
                expired_count |-> Cardinality(sessions \ sessions')]
    /\ UNCHANGED <<now, freshVars, users, tokens, handlerVars, lk, gk, stored>>

\* time passes; no operation has run at the new instant yet
SessionTick ==
    /\ now < MaxTicks * BufferSecs
    /\ now' = now + BufferSecs
    /\ call' = NoCall
    /\ UNCHANGED <<freshVars, storeVars, handlerVars, lk, gk, stored>>

SessionNext ==
    \/ \E l \in Lookups, key \in PresentedKeys : L_Query(l, key)
    \/ \E l \in Lookups : L_Commit(l)
    \/ Sweep
    \/ SessionTick

SpecSession == SessionInit /\ [][SessionNext]_vars

\* ------------------------------------- get_user_by_api_key and auth_revoke
\* the callers of get_user_by_api_key: auth_revoke, which goes on to delete
\* the user, and the callers that only validate the key
KeyHandlers == {"auth_revoke", "auth_status"}

KeyInit ==
    /\ now = 0
    /\ arg_expires_at = DateTime(0, FALSE, 0)
    /\ ret_needs_refresh = << >>
    /\ users = InitUsers
    /\ tokens = InitTokens
    /\ \E S \in SUBSET UserIds :
          sessions = {SessionRow(InitSessionId(u), u, InitApiKey(u), 0) : u \in S}
    /\ issued = 2 * Cardinality(UserIds)
    /\ ResolverIdle
    /\ CallbackIdle
    /\ ProxyIdle
    /\ OpsIdle

\* an Authorization header: its scheme word and what follows the blank
Bearer(key) == [scheme |-> "Bearer", credentials |-> key]

\* the headers that do not start with "Bearer ": None is a request with no
\* Authorization header, the others carry the key of a user
NonBearerHeaders ==
    {None, [scheme |-> "Basic", credentials |-> "key1"],
           [scheme |-> "bearer", credentials |-> "key1"]}

\* auth_header.startswith('Bearer ')
StartsWithBearer(header) == header # None /\ header.scheme = "Bearer"

K_Unauthorized_AnyScheme(k, handler, header) ==
    /\ gk[k].pc = "idle"
    /\ \A j \in KeyCalls : j < k => gk[j].pc # "idle"
    /\ ~StartsWithBearer(header)
    /\ LET key == IF header = None THEN "" ELSE header.credentials
           found == {x \in users : x.api_key = key}
       IN  IF found = {}
           THEN gk' = [gk EXCEPT ![k] = [@ EXCEPT !.pc = "done", !.handler = handler,
                                                  !.header = header, !.status = 401,
                                                  !.error = "Invalid API key"]]
           ELSE \E user \in found :
                   gk' = [gk EXCEPT ![k] = [@ EXCEPT !.pc = "commit", !.handler = handler,
                                                     !.header = header, !.key = key,
                                                     !.clock = now, !.user = user]]
    /\ UNCHANGED <<now, freshVars, storeVars, handlerVars, lk, call, stored>>

\* web_auth lines 271-273 and 301-303: a header that does not start with
\* "Bearer " is answered 401 before any lookup
K_Unauthorized(k, handler, header) ==
    /\ gk[k].pc = "idle"
    /\ \A j \in KeyCalls : j < k => gk[j].pc # "idle"   \* callers are interchangeable
    /\ ~StartsWithBearer(header)
    /\ gk' = [gk EXCEPT ![k] =
            [@ EXCEPT !.pc = "done", !.handler = handler, !.header = header,
                      !.status = 401,
                      !.error = "Missing or invalid authorization header"]]
    /\ UNCHANGED <<now, freshVars, storeVars, handlerVars, lk, call, stored>>

\* auth.get_user_by_api_key lines 99-102 (web_auth lines 305-309): the query
\* and the clock read for last_active; no row, and the handler answers 401
K_Query(k, key, handler) ==
    /\ gk[k].pc = "idle"
    /\ \A j \in KeyCalls : j < k => gk[j].pc # "idle"   \* callers are interchangeable
    /\ LET found == {x \in users : x.api_key = key}
       IN  IF found = {}
           THEN gk' = [gk EXCEPT ![k] = [@ EXCEPT !.pc = "done", !.handler = handler,
                                                  !.header = Bearer(key),
                                                  !.key = key, !.clock = now,
                                                  !.result = None, !.status = 401,
                                                  !.error = "Invalid API key"]]
           ELSE \E user \in found :
                   gk' = [gk EXCEPT ![k] = [@ EXCEPT !.pc = "commit", !.handler = handler,
                                                     !.header = Bearer(key),
                                                     !.key = key, !.clock = now,
                                                     !.user = user]]
    /\ UNCHANGED <<now, freshVars, storeVars, handlerVars, lk, call, stored>>

\* auth.get_user_by_api_key lines 99 and 106-107: the query raises, the store
\* being out of reach; the except clause prints the error and returns None,
\* and the handler answers as it does for a key that matches no user
K_QueryFail(k, key, handler) ==
    /\ gk[k].pc = "idle"
    /\ \A j \in KeyCalls : j < k => gk[j].pc # "idle"   \* callers are interchangeable
    /\ gk' = [gk EXCEPT ![k] = [@ EXCEPT !.pc = "done", !.handler = handler,
                                         !.header = Bearer(key), !.key = key,
                                         !.result = None, !.status = 401,
                                         !.error = "Invalid API key",
                                         !.io_failed = TRUE]]
    /\ UNCHANGED <<now, freshVars, storeVars, handlerVars, lk, call, stored>>

K_Commit_RenewSessions(k) ==
    /\ gk[k].pc = "commit"
    /\ LET rows == {x \in users : x.user_id = gk[k].user.user_id}
       IN  IF rows = {}
           THEN /\ UNCHANGED <<users, sessions>>
                /\ gk' = [gk EXCEPT ![k] = [@ EXCEPT !.pc = "done", !.result = None,
                                                     !.status = 401,
                                                     !.error = "Invalid API key"]]
           ELSE \E row \in rows :
                   LET user == [row EXCEPT !.last_active = ToDb(utcnow(gk[k].clock))]
                   IN  /\ users' = (users \ {row}) \cup {user}
                       /\ sessions' =
                              {[y EXCEPT !.last_activity =
                                    IF y.user_id = row.user_id
                                    THEN ToDb(utcnow(gk[k].clock)) ELSE @] : y \in sessions}
                       /\ gk' = [gk EXCEPT ![k] =
                               [@ EXCEPT !.pc = IF gk[k].handler = "auth_revoke"
                                                THEN "delete" ELSE "done",
                                         !.result = user]]
    /\ UNCHANGED <<now, freshVars, tokens, handlerVars, lk, call, stored>>

\* lines 103-107: the commit of last_active; the UPDATE of a row that is no
\* longer there raises, and the except clause returns None
K_Commit(k) ==
    /\ gk[k].pc = "commit"
    /\ LET rows == {x \in users : x.user_id = gk[k].user.user_id}
       IN  IF rows = {}
           THEN /\ users' = users
                /\ gk' = [gk EXCEPT ![k] = [@ EXCEPT !.pc = "done", !.result = None,
                                                     !.status = 401,
                                                     !.error = "Invalid API key"]]
           ELSE \E row \in rows :
                   LET user == [row EXCEPT !.last_active = ToDb(utcnow(gk[k].clock))]
                   IN  /\ users' = (users \ {row}) \cup {user}
                       /\ gk' = [gk EXCEPT ![k] =
                               [@ EXCEPT !.pc = IF gk[k].handler = "auth_revoke"
                                                THEN "delete" ELSE "done",
                                         !.result = user]]
    /\ UNCHANGED <<now, freshVars, tokens, sessions, handlerVars, lk, call, stored>>

\* web_auth.auth_revoke lines 312-331: db.delete(user) and the commit.  The
\* delete cascades to the tokens relationship of User (models.py 63); User has
\* no relationship to UserSession and the foreign key of user_sessions has no
\* ON DELETE rule, so a store that enforces foreign keys refuses the delete of
\* a user with sessions, and a store that does not leaves the sessions
K_Delete(k, enforced) ==
    /\ gk[k].pc = "delete"
    /\ LET u == gk[k].result.user_id
           rows == {x \in users : x.user_id = u}
       IN  IF rows = {} \/ (enforced /\ SessionsOf(sessions, u) # {})
           THEN /\ UNCHANGED <<users, tokens>>
                /\ gk' = [gk EXCEPT ![k] = [@ EXCEPT !.pc = "done", !.status = 500]]
           ELSE /\ users' = users \ rows
                /\ tokens' = tokens \ TokensOf(tokens, u)
                /\ gk' = [gk EXCEPT ![k] = [@ EXCEPT !.pc = "done", !.status = 200]]
    /\ UNCHANGED <<now, freshVars, sessions, handlerVars, lk, call, stored>>

K_CreateUser_NewKey(a, key, uid) ==
    /\ LET existing == ExistingUsers(users, a)
           user == UserRow(uid, key, a, "name1", "mail1", now)
       IN  IF existing # {}
           THEN \E x \in existing :
                   users' = (users \ {x}) \cup
                       {[x EXCEPT !.api_key =
                            IF \A y \in users : y.api_key # key THEN key ELSE @]}
           ELSE IF UniqueUser(users, user)
           THEN users' = users \cup {user}
           ELSE users' = users
    /\ UNCHANGED <<now, freshVars, tokens, sessions, handlerVars, lk, gk, call, stored>>

\* auth.create_user lines 29-49, as one transaction: an account with no row
\* (it was revoked) logs in again and gets a new row with a random key and a
\* random id, unless the INSERT breaks a unique column.  For an account that
\* has a row create_user returns the row and writes nothing, which is no
\* step.  The login comes between two requests to the handlers
K_CreateUser(a, key, uid) ==
    /\ ExistingUsers(users, a) = {}
    /\ \A k \in KeyCalls : gk[k].pc \in {"idle", "done"}
    /\ LET user == UserRow(uid, key, a, "name1", "mail1", now)
       IN  users' = IF UniqueUser(users, user) THEN users \cup {user} ELSE users
    /\ UNCHANGED <<now, freshVars, tokens, sessions, handlerVars, lk, gk, call, stored>>

KeyTick ==
    /\ now < MaxTicks * BufferSecs
    /\ now' = now + BufferSecs
    /\ UNCHANGED <<freshVars, storeVars, handlerVars, lk, gk, call, stored>>

KeyNext ==
    \/ \E k \in KeyCalls, handler \in KeyHandlers, header \in NonBearerHeaders :
          K_Unauthorized(k, handler, header)
    \/ \E k \in KeyCalls, key \in PresentedKeys \cup {""}, handler \in KeyHandlers :
          K_Query(k, key, handler)
    \/ \E k \in KeyCalls, key \in PresentedKeys, handler \in KeyHandlers :
          K_QueryFail(k, key, handler)
    \/ \E k \in KeyCalls : K_Commit(k)
    \/ \E k \in KeyCalls, enforced \in BOOLEAN : K_Delete(k, enforced)
    \/ \E a \in Accounts, key \in ApiKeys, uid \in UserIds : K_CreateUser(a, key, uid)
    \/ KeyTick

SpecKey == KeyInit /\ [][KeyNext]_vars

\* ------------------------- store_spotify_tokens and get_user_tokens, one call
\* at a time
\* the k-th pair of tokens the upstream hands out after the pairs of InitAccess
Pairs == 1..MaxPairs
PairAccess(k) == 2 * Cardinality(UserIds) + 2 * k - 1
PairRefresh(k) == 2 * Cardinality(UserIds) + 2 * k

\* the arguments of a store_spotify_tokens call
StoreArgs(access_token, refresh_token, expires_at, scope) ==
    [access_token |-> access_token, refresh_token |-> refresh_token,
     expires_at |-> expires_at, scope |-> scope]

StoreInit ==
    /\ now = 0
    /\ arg_expires_at = DateTime(0, FALSE, 0)
    /\ ret_needs_refresh = << >>
    /\ users = InitUsers
    /\ \E r1 \in InitTokenRows("u1"), r2 \in InitTokenRows("u2") : tokens = r1 \cup r2
    /\ sessions = {}
    /\ issued = 2 * Cardinality(UserIds)
    /\ ResolverIdle
    /\ CallbackIdle
    /\ ProxyIdle
    /\ OpsIdle

\* web_auth.auth_callback lines 148-155: the tokens of a code exchange are
\* stored for the user, with the scope of the grant
OpStoreTokens(u, k) ==
    \E e \in ExpiresIn :
        LET args == StoreArgs(PairAccess(k), PairRefresh(k),
                              plus_seconds(utcnow(now), e), "scopes")
        IN  /\ tokens' = store_spotify_tokens(tokens, u, args.access_token,
                             args.refresh_token, args.expires_at, args.scope)
            /\ call' = [op |-> "store_spotify_tokens", user_id |-> u]
            /\ stored' = [stored EXCEPT ![u] = args]
            /\ UNCHANGED <<now, freshVars, users, sessions, handlerVars, lk, gk>>

\* spotify_client lines 81-87: the tokens of a refresh are stored for the user
\* through update_user_tokens, which passes no scope; rotated tells whether
\* the response had a refresh token of its own
OpUpdateTokens(u, k, rotated) ==
    /\ get_user_tokens(tokens, u) # None
    /\ \E e \in ExpiresIn :
        LET token_data == get_user_tokens(tokens, u)
            args == StoreArgs(PairAccess(k),
                              IF rotated THEN PairRefresh(k) ELSE token_data.refresh_token,
                              plus_seconds(utcnow(now), e), "null")
        IN  /\ tokens' = update_user_tokens(tokens, u, args.access_token,
                             args.refresh_token, args.expires_at)
            /\ call' = [op |-> "update_user_tokens", user_id |-> u]
            /\ stored' = [stored EXCEPT ![u] = args]
            /\ UNCHANGED <<now, freshVars, users, sessions, handlerVars, lk, gk>>

\* auth.get_user_tokens
OpGetUserTokens(u) ==
    /\ call' = [op |-> "get_user_tokens", user_id |-> u,
                result |-> get_user_tokens(tokens, u)]
    /\ UNCHANGED <<now, freshVars, storeVars, handlerVars, lk, gk, stored>>

StoreTick ==
    /\ now < MaxTicks * BufferSecs
    /\ now' = now + BufferSecs
    /\ call' = NoCall
    /\ UNCHANGED <<freshVars, storeVars, handlerVars, lk, gk, stored>>

StoreNext ==
    \/ \E u \in UserIds, k \in Pairs : OpStoreTokens(u, k)
    \/ \E u \in UserIds, k \in Pairs, rotated \in BOOLEAN : OpUpdateTokens(u, k, rotated)
    \/ \E u \in UserIds : OpGetUserTokens(u)
    \/ StoreTick

SpecStore == StoreInit /\ [][StoreNext]_vars

\* ------------------------------------------------ middleware.MCPAuthMiddleware
\* what a request brings: the scope type, the path, the Authorization header
\* (None when there is none) and the token parameter of the URL (<< >> when
\* there is none).  Header and parameter are read for the /mcp paths only.
McpPaths == {"/mcp", "/mcp/tools"}

MiddlewareHeaders ==
    {None, [scheme |-> "Basic", credentials |-> "key1"],
     Bearer("key1"), Bearer("bad"), Bearer("")}

MiddlewareTokens == {<< >>, <<"key2">>, <<"">>}

MiddlewareInputs ==
    {[type |-> "websocket", path |-> "/mcp", header |-> None, token |-> << >>],
     [type |-> "http", path |-> "/auth/status", header |-> Bearer("key1"), token |-> << >>],
     [type |-> "http", path |-> "/mcp/tools", header |-> None, token |-> <<"key2">>]} \cup
    {[type |-> "http", path |-> "/mcp", header |-> h, token |-> t] :
        h \in MiddlewareHeaders, t \in MiddlewareTokens}

\* request.url.path == "/mcp" or request.url.path.startswith("/mcp/")
IsMcpPath(path) == path \in McpPaths

\* authenticate_request lines 51-54: the key of a Bearer header; "" is no key
HeaderKey(header) == IF StartsWithBearer(header) THEN header.credentials ELSE ""

\* lines 57-60: request.query_params.get('token'); "" is no key
ParamKey(token) == IF token = << >> THEN "" ELSE token[1]

MiddlewareInit ==
    /\ now = 0
    /\ arg_expires_at = DateTime(0, FALSE, 0)
    /\ ret_needs_refresh = << >>
    /\ users = InitUsers
    /\ tokens = InitTokens
    /\ sessions = {}
    /\ issued = 2 * Cardinality(UserIds)
    /\ ResolverIdle
    /\ CallbackIdle
    /\ ProxyIdle
    /\ OpsIdle

M_Receive_ParamFirst(m, in) ==
    /\ mw[m].pc = "idle"
    /\ \A q \in Requests : q < m => mw[q].pc # "idle"
    /\ LET base == [mw[m] EXCEPT !.type = in.type, !.path = in.path,
                                 !.header = in.header, !.token = in.token]
           h == HeaderKey(in.header)
           t == ParamKey(in.token)
           api_key == IF t # "" THEN t ELSE h
           auth_method == IF t # "" THEN "url_param"
                          ELSE IF StartsWithBearer(in.header) THEN "header" ELSE ""
       IN  mw' = [mw EXCEPT ![m] =
               IF in.type # "http" \/ ~IsMcpPath(in.path)
               THEN [base EXCEPT !.pc = "forward"]
               ELSE IF api_key = ""
               THEN [base EXCEPT !.pc = "forward", !.auth_method = auth_method,
                                 !.error = "Missing authentication"]
               ELSE [base EXCEPT !.pc = "lookup", !.api_key = api_key,
                                 !.auth_method = auth_method]]
    /\ UNCHANGED <<now, freshVars, storeVars, issued, res, cb, proxyVars, lk, gk, call,
                   stored, gen>>

\* __call__ lines 20-27 and authenticate_request lines 47-67: a request that
\* is not http, or not for /mcp, goes on at once; for the others the key is
\* taken from the Bearer header, and from the token parameter when the header
\* gave none
M_Receive(m, in) ==
    /\ mw[m].pc = "idle"
    /\ \A q \in Requests : q < m => mw[q].pc # "idle"   \* requests are interchangeable
    /\ LET base == [mw[m] EXCEPT !.type = in.type, !.path = in.path,
                                 !.header = in.header, !.token = in.token]
           h == HeaderKey(in.header)
           t == ParamKey(in.token)
           api_key == IF h # "" THEN h ELSE t
           auth_method == IF h = "" /\ t # "" THEN "url_param"
                          ELSE IF StartsWithBearer(in.header) THEN "header" ELSE ""
       IN  mw' = [mw EXCEPT ![m] =
               IF in.type # "http" \/ ~IsMcpPath(in.path)
               THEN [base EXCEPT !.pc = "forward"]
               ELSE IF api_key = ""
               THEN [base EXCEPT !.pc = "forward", !.auth_method = auth_method,
                                 !.error = "Missing authentication"]
               ELSE [base EXCEPT !.pc = "lookup", !.api_key = api_key,
                                 !.auth_method = auth_method]]
    /\ UNCHANGED <<now, freshVars, storeVars, issued, res, cb, proxyVars, lk, gk, call,
                   stored, gen>>

M_Authenticate_Blocking(m) ==
    /\ mw[m].pc = "lookup"
    /\ LET found == {x \in users : x.api_key = mw[m].api_key}
       IN  IF found = {}
           THEN /\ users' = users
                /\ mw' = [mw EXCEPT ![m] = [@ EXCEPT !.pc = "done",
                                                     !.error = "Invalid API key"]]
           ELSE \E row \in found :
                   LET user == [row EXCEPT !.last_active = ToDb(utcnow(now))]
                   IN  /\ users' = (users \ {row}) \cup {user}
                       /\ mw' = [mw EXCEPT ![m] =
                               [@ EXCEPT !.pc = "forward", !.authenticated = TRUE,
                                         !.state = [user_id |-> user.user_id,
                                                    user |-> user,
                                                    api_key |-> mw[m].api_key]]]
    /\ UNCHANGED <<now, freshVars, tokens, sessions, issued, res, cb, proxyVars, lk, gk,
                   call, stored, gen>>

\* authenticate_request lines 70-84 and __call__ lines 32-39: the lookup of
\* the key, which stamps last_active of the user it finds (auth.py 99-104),
\* and the user context put on request.state
M_Authenticate(m) ==
    /\ mw[m].pc = "lookup"
    /\ LET found == {x \in users : x.api_key = mw[m].api_key}
       IN  IF found = {}
           THEN /\ users' = users
                /\ mw' = [mw EXCEPT ![m] = [@ EXCEPT !.pc = "forward",
                                                     !.error = "Invalid API key"]]
           ELSE \E row \in found :
                   LET user == [row EXCEPT !.last_active = ToDb(utcnow(now))]
                   IN  /\ users' = (users \ {row}) \cup {user}
                       /\ mw' = [mw EXCEPT ![m] =
                               [@ EXCEPT !.pc = "forward", !.authenticated = TRUE,
                                         !.state = [user_id |-> user.user_id,
                                                    user |-> user,
                                                    api_key |-> mw[m].api_key]]]
    /\ UNCHANGED <<now, freshVars, tokens, sessions, issued, res, cb, proxyVars, lk, gk,
                   call, stored, gen>>

\* lines 80 and 86-90: get_user_by_api_key has committed and closed its
\* session, so the user it returns is detached and its attributes are expired;
\* reading user.user_id may raise, and the except clause answers
\* "Authentication error".  The stamp of last_active is committed by then.
M_AuthenticateError(m) ==
    /\ mw[m].pc = "lookup"
    /\ \E row \in {x \in users : x.api_key = mw[m].api_key} :
          users' = (users \ {row}) \cup {[row EXCEPT !.last_active = ToDb(utcnow(now))]}
    /\ mw' = [mw EXCEPT ![m] = [@ EXCEPT !.pc = "forward",
                                         !.error = "Authentication error"]]
    /\ UNCHANGED <<now, freshVars, tokens, sessions, issued, res, cb, proxyVars, lk, gk,
                   call, stored, gen>>

\* __call__ lines 21 and 42: await self.app(scope, receive, send)
M_Forward(m) ==
    /\ mw[m].pc = "forward"
    /\ mw' = [mw EXCEPT ![m] = [@ EXCEPT !.pc = "done", !.app_calls = @ + 1]]
    /\ UNCHANGED <<now, freshVars, storeVars, issued, res, cb, proxyVars, lk, gk, call,
                   stored, gen>>

\* time passes between requests
MiddlewareTick ==
    /\ now < MaxTicks * BufferSecs
    /\ \A m \in Requests : mw[m].pc \in {"idle", "done"}
    /\ now' = now + BufferSecs
    /\ UNCHANGED <<freshVars, storeVars, handlerVars, lk, gk, call, stored>>

MiddlewareNext ==
    \/ \E m \in Requests, in \in MiddlewareInputs : M_Receive(m, in)
    \/ \E m \in Requests : M_Authenticate(m)
    \/ \E m \in Requests : M_AuthenticateError(m)
    \/ \E m \in Requests : M_Forward(m)
    \/ MiddlewareTick

SpecMiddleware == MiddlewareInit /\ [][MiddlewareNext]_vars

\* ------------------------------------ auth.generate_api_key, generate_user_id
\* string.ascii_lowercase, string.ascii_uppercase and string.digits
ascii_lowercase ==
    {"a", "b", "c", "d", "e", "f", "g", "h", "i", "j", "k", "l", "m",
     "n", "o", "p", "q", "r", "s", "t", "u", "v", "w", "x", "y", "z"}

ascii_uppercase ==
    {"A", "B", "C", "D", "E", "F", "G", "H", "I", "J", "K", "L", "M",
     "N", "O", "P", "Q", "R", "S", "T", "U", "V", "W", "X", "Y", "Z"}

digits == {"0", "1", "2", "3", "4", "5", "6", "7", "8", "9"}

ascii_letters == ascii_lowercase \cup ascii_uppercase

\* line 16: alphabet = string.ascii_letters + string.digits
alphabet == ascii_letters \cup digits

\* some of string.punctuation
punctuation == {"-", "_", "+", "/", "="}

IsAlnum(c) == c \in ascii_letters \cup digits

\* out + c
AppendChar(text, c) ==
    [len |-> text.len + 1, last |-> c, alnum |-> text.alnum /\ IsAlnum(c)]

\* the lengths a caller passes
Lengths == 0..MaxLen

\* line 14: length: int = 32
DefaultLength == 32

\* str(uuid.uuid4()): the 32 hex digits of the value in groups of 8, 4, 4, 4
\* and 12, with a hyphen between two groups
UuidGroups == <<8, 4, 4, 4, 12>>

hexdigits == digits \cup {"a", "b", "c", "d", "e", "f"}

GenInit ==
    /\ now = 0
    /\ arg_expires_at = DateTime(0, FALSE, 0)
    /\ ret_needs_refresh = << >>
    /\ users = {}
    /\ tokens = {}
    /\ sessions = {}
    /\ issued = 0
    /\ ResolverIdle
    /\ CallbackIdle
    /\ ProxyIdle
    /\ OpsIdle

\* line 14: generate_api_key(length), or generate_api_key() when args is empty
G_ApiKey(args) ==
    /\ gen.pc = "idle"
    /\ gen' = [gen EXCEPT !.fn = "generate_api_key", !.pc = "loop", !.args = args,
                          !.length = IF args = << >> THEN DefaultLength ELSE args[1]]
    /\ UNCHANGED <<now, freshVars, storeVars, issued, res, cb, proxyVars, lk, gk, call, stored, mw>>

G_Choice_Punctuation(c) ==
    /\ gen.pc = "loop"
    /\ gen.out.len < gen.length
    /\ \E d \in alphabet \cup punctuation : gen' = [gen EXCEPT !.out = AppendChar(@, d)]
    /\ UNCHANGED <<now, freshVars, storeVars, issued, res, cb, proxyVars, lk, gk, call, stored, mw>>

\* line 17: secrets.choice(alphabet) for one more index of range(length)
G_Choice(c) ==
    /\ gen.pc = "loop"
    /\ gen.out.len < gen.length
    /\ gen' = [gen EXCEPT !.out = AppendChar(@, c)]
    /\ UNCHANGED <<now, freshVars, storeVars, issued, res, cb, proxyVars, lk, gk, call, stored, mw>>

\* line 17: range(length) is used up, the joined string is returned
G_Join ==
    /\ gen.pc = "loop"
    /\ gen.out.len >= gen.length
    /\ gen' = [gen EXCEPT !.pc = "done"]
    /\ UNCHANGED <<now, freshVars, storeVars, issued, res, cb, proxyVars, lk, gk, call, stored, mw>>

\* line 19: generate_user_id(); length counts the groups written so far
G_UserId ==
    /\ gen.pc = "idle"
    /\ gen' = [gen EXCEPT !.fn = "generate_user_id", !.pc = "format"]
    /\ UNCHANGED <<now, freshVars, storeVars, issued, res, cb, proxyVars, lk, gk, call, stored, mw>>

\* line 22: str(uuid.uuid4()) writes the next group, whose last digit is c,
\* behind a hyphen when it is not the first
G_UuidGroup(c) ==
    /\ gen.pc = "format"
    /\ gen.length < Len(UuidGroups)
    /\ LET hyphen == IF gen.length = 0 THEN 0 ELSE 1
       IN  gen' = [gen EXCEPT !.length = @ + 1,
                              !.out = [len |-> @.len + hyphen + UuidGroups[gen.length + 1],
                                       last |-> c,
                                       alnum |-> @.alnum /\ hyphen = 0]]
    /\ UNCHANGED <<now, freshVars, storeVars, issued, res, cb, proxyVars, lk, gk, call, stored, mw>>

\* line 22: the string is returned
G_UuidReturn ==
    /\ gen.pc = "format"
    /\ gen.length = Len(UuidGroups)
    /\ gen' = [gen EXCEPT !.pc = "done"]
    /\ UNCHANGED <<now, freshVars, storeVars, issued, res, cb, proxyVars, lk, gk, call, stored, mw>>

GenNext ==
    \/ \E n \in Lengths : G_ApiKey(<<n>>)
    \/ G_ApiKey(<< >>)
    \/ \E c \in alphabet : G_Choice(c)
    \/ G_Join
    \/ G_UserId
    \/ \E c \in hexdigits : G_UuidGroup(c)
    \/ G_UuidReturn

SpecGen == GenInit /\ [][GenNext]_vars

\* ============================================================ the resolver
Done(p) == res[p].pc = "done"

\* the calls of user u that are over, read the pair td from the store and found
\* it stale, and met no upstream or store failure
StaleCalls(u, td) ==
    {p \in Resolvers : /\ Done(p)
                       /\ res[p].user_id = u
                       /\ res[p].token_data = td
                       /\ res[p].path = "refreshed"}

RECURSIVE RefreshCalls(_)
RefreshCalls(S) ==
    IF S = {} THEN 0
    ELSE LET p == CHOOSE x \in S : TRUE IN res[p].refresh_calls + RefreshCalls(S \ {p})

\* no other call of the same user has written that user's pair
OnlyWriter(p) ==
    \A q \in Resolvers : (q # p /\ res[q].user_id = res[p].user_id) => res[q].writes = 0

\* C1: N >= 2 calls for one user that ran concurrently on the same stale pair
\* made exactly one upstream refresh call between them and all returned the
\* same new access token.
C1_RefreshCoalescing ==
    \A u \in UserIds : \A p \in Resolvers :
        LET S == StaleCalls(u, res[p].token_data)
        IN  Cardinality(S) >= 2 =>
               /\ RefreshCalls(S) = 1
               /\ \A a, b \in S : res[a].result = res[b].result

\* C2: at every moment at most one upstream refresh call is in flight per user.
InFlight(u) == {p \in Resolvers : res[p].pc = "refreshing" /\ res[p].user_id = u}

C2_OneRefreshInFlight == \A u \in UserIds : Cardinality(InFlight(u)) <= 1

\* C6: a call whose upstream refresh failed returns no client and has written
\* nothing: the stored pair is the one the call read (as long as no other call
\* of that user wrote it), and the failing step itself leaves the table alone.
C6_FailedCallState ==
    \A p \in Resolvers :
        (Done(p) /\ res[p].path = "refresh_failed") =>
            /\ res[p].result = None
            /\ res[p].writes = 0
            /\ res[p].refresh_calls = 1
            /\ OnlyWriter(p) => get_user_tokens(tokens, res[p].user_id) = res[p].token_data

C6_FailedStep ==
    \A p \in Resolvers :
        (res[p].pc = "refreshing" /\ res'[p].path = "refresh_failed") => tokens' = tokens

C6_RefreshFailureKeepsPair == [](C6_FailedCallState) /\ [][C6_FailedStep]_vars

C6_Witness ==
    \E p \in Resolvers :
        /\ Done(p) /\ res[p].path = "refresh_failed" /\ OnlyWriter(p)
        /\ get_user_tokens(tokens, res[p].user_id) = res[p].token_data
        /\ tokens_need_refresh(res[p].token_data.expires_at, now)

\* C7: the step that stores a successful refresh leaves the user one pair that
\* holds the new access token, expires expires_in seconds from now, and holds
\* the response's refresh token, or, when the response has none, the refresh
\* token the call read from the store; the call returns the new access token.
C7_StoreStep ==
    \A p \in Resolvers :
        (res[p].pc = "update" /\ res'[p].path = "refreshed") =>
            LET info == res[p].new_token_info
                rows == TokensOf(tokens', res[p].user_id)
            IN  /\ Cardinality(rows) = 1
                /\ \A t \in rows :
                      /\ t.access_token.key = ENCRYPTION_KEY
                      /\ t.access_token.pt = info.access_token
                      /\ t.expires_at = DateTime(now + info.expires_in, FALSE, 0)
                      /\ t.refresh_token.key = ENCRYPTION_KEY
                      /\ t.refresh_token.pt =
                            IF "refresh_token" \in DOMAIN info
                            THEN info.refresh_token
                            ELSE res[p].token_data.refresh_token
                      /\ (("refresh_token" \notin DOMAIN info
                             /\ get_user_tokens(tokens, res[p].user_id) = res[p].token_data)
                          => \A o \in TokensOf(tokens, res[p].user_id) :
                                t.refresh_token = o.refresh_token)
                /\ res'[p].result = [auth |-> info.access_token]

C7_RefreshKeepsOldRefreshToken == [][C7_StoreStep]_vars

C7_Witness ==
    \E p \in Resolvers :
        /\ Done(p) /\ res[p].path = "refreshed" /\ OnlyWriter(p)
        /\ "refresh_token" \notin DOMAIN res[p].new_token_info
        /\ \E t \in TokensOf(tokens, res[p].user_id) :
              /\ t.refresh_token.pt = InitRefresh(res[p].user_id)
              /\ t.access_token.pt = res[p].new_token_info.access_token
              /\ t.access_token.pt # InitAccess(res[p].user_id)

\* C8: a call that found expires_at later than now + 5 minutes has made no
\* upstream refresh call and no write, and uses the access token it read, which
\* is the stored plaintext access token.
FreshAtCheck(p) ==
    /\ res[p].token_data # None
    /\ res[p].token_data.expires_at.wall > res[p].clock + 5 * 60

C8_FreshPathNoRefresh ==
    \A p \in Resolvers :
        (Done(p) /\ FreshAtCheck(p)) =>
            /\ res[p].refresh_calls = 0
            /\ res[p].writes = 0
            /\ res[p].result = [auth |-> res[p].token_data.access_token]
            /\ OnlyWriter(p) =>
                  \A t \in TokensOf(tokens, res[p].user_id) :
                      t.access_token = [key |-> ENCRYPTION_KEY, pt |-> res[p].result.auth]

C8_Witness ==
    \E p \in Resolvers :
        /\ Done(p) /\ FreshAtCheck(p) /\ OnlyWriter(p)
        /\ res[p].result = [auth |-> InitAccess(res[p].user_id)]
        /\ TokensOf(tokens, res[p].user_id) # {}

\* C31: a call asks the upstream for a refresh at most once; the step in which
\* the refresh fails ends the call, without a further request, and a call
\* that is over asks nothing more.
C31_AtMostOne == \A p \in Resolvers : res[p].refresh_calls <= 1

C31_FailStep ==
    \A p \in Resolvers :
        /\ (res[p].pc = "refreshing" /\ res'[p].new_token_info = None /\ res'[p] # res[p]) =>
              /\ res'[p].pc = "done"
              /\ res'[p].result = None
              /\ res'[p].refresh_calls = res[p].refresh_calls
              /\ issued' = issued
        /\ Done(p) => res'[p] = res[p]

C31_NoRetryOfFailedRefresh == [](C31_AtMostOne) /\ [][C31_FailStep]_vars

\* both calls met a failing refresh, one after the other, and each asked once
C31_Witness ==
    \A p \in Resolvers :
        /\ Done(p) /\ res[p].path = "refresh_failed"
        /\ res[p].refresh_calls = 1 /\ res[p].user_id = "u2"

\* C37: once the calls of a user that stored a refreshed pair are over, the
\* stored access token is the one of the refresh the upstream answered last
\* among them (the upstream numbers its tokens in the order of its answers).
Writers(u) ==
    {p \in Resolvers : Done(p) /\ res[p].user_id = u /\ res[p].path = "refreshed"}

LastAnswered(S) ==
    CHOOSE p \in S : \A q \in S :
        res[q].new_token_info.access_token <= res[p].new_token_info.access_token

C37_LastRefreshStored ==
    \A u \in UserIds :
        (Writers(u) # {} /\ \A p \in Resolvers : res[p].user_id = u => Done(p)) =>
            get_user_tokens(tokens, u).access_token =
                res[LastAnswered(Writers(u))].new_token_info.access_token

\* C26: a call for a user who has no stored pair ends in its first step: it
\* returns no client, has made no upstream refresh call and no write, and the
\* step leaves the store and the upstream alone.
NoStoredPair(u) == TokensOf(tokens, u) = {}

C26_NoPairState ==
    \A p \in Resolvers :
        (Done(p) /\ NoStoredPair(res[p].user_id)) =>
            /\ res[p].result = None
            /\ res[p].refresh_calls = 0
            /\ res[p].writes = 0

C26_NoPairStep ==
    \A p \in Resolvers :
        (res[p].pc = "idle" /\ res'[p].pc # "idle" /\ NoStoredPair(res'[p].user_id)) =>
            /\ res'[p].pc = "done"
            /\ res'[p].result = None
            /\ tokens' = tokens /\ users' = users /\ sessions' = sessions
            /\ issued' = issued

C26_NoCredentialsNoRefresh == [](C26_NoPairState) /\ [][C26_NoPairStep]_vars

C26_Witness ==
    \E p \in Resolvers :
        /\ Done(p) /\ res[p].path = "no_tokens" /\ NoStoredPair(res[p].user_id)
        /\ res[p].result = None

\* C27: a call for a user whose stored pair cannot be decrypted under the
\* current key returns something else than a call for a user with no stored
\* pair, which returns no client (C26).
NoCredentialsOutcome == None

Undecryptable(u) ==
    \E t \in TokensOf(tokens, u) :
        ~CanDecrypt(t.access_token) \/ ~CanDecrypt(t.refresh_token)

C27_DecryptFailureDistinct ==
    \A p \in Resolvers :
        (Done(p) /\ res[p].path # "no_context" /\ Undecryptable(res[p].user_id)) =>
            res[p].result # NoCredentialsOutcome

\* C29: a tool call for a user who has no stored pair, or whose refresh
\* failed, ends with a text that tells the user to re-authenticate; every tool
\* call that is over has returned a text.
TellsReauth(text) ==
    \E i \in DOMAIN text.message : text.message[i] = "Please re-authenticate at /auth/login"

C29_ReauthText ==
    \A p \in Resolvers :
        Done(p) =>
            /\ res[p].text # None
            /\ (NoStoredPair(res[p].user_id) \/ res[p].path = "refresh_failed") =>
                   TellsReauth(res[p].text)

\* ============================================================ the callback
Succeeded(c) == cb[c].pc = "done" /\ cb[c].outcome = "Succeeded"

\* C4: two callbacks (two codes) of one upstream account that succeed show the
\* same user_id and the same api_key; a callback that finds the account's User
\* takes that row and its key, and no step changes or removes a User row: the
\* one change to the table is the insert of a row for an account that had none.
C4_SameUserSameKey ==
    \A c, d \in Callbacks :
        (Succeeded(c) /\ Succeeded(d) /\ cb[c].account = cb[d].account) =>
            /\ cb[c].user.user_id = cb[d].user.user_id
            /\ cb[c].api_key = cb[d].api_key

C4_ExistingReturned ==
    \A c \in Callbacks :
        (/\ cb[c].pc = "create_user"
         /\ cb'[c].pc # "create_user"
         /\ ExistingUsers(users, cb[c].profile.id) # {}) =>
            /\ users' = users
            /\ cb'[c].user \in users
            /\ cb'[c].user.spotify_user_id = cb[c].profile.id
            /\ cb'[c].api_key = cb'[c].user.api_key

C4_RowsKept ==
    users' # users =>
        \E row \in users' :
            /\ users' = users \cup {row}
            /\ ExistingUsers(users, row.spotify_user_id) = {}

C4_IdempotentRegistration ==
    [](C4_SameUserSameKey) /\ [][C4_ExistingReturned /\ C4_RowsKept]_vars

C4_Witness ==
    \E c, d \in Callbacks :
        /\ Succeeded(c) /\ Succeeded(d) /\ cb[c].account = cb[d].account
        /\ cb[c].created = "created" /\ cb[d].created = "existing"
        /\ cb[c].api_key = cb[d].api_key
        /\ \E x \in users :
              /\ x.user_id = cb[d].user.user_id
              /\ x.display_name # Profile(d, cb[d].account).display_name
              /\ x.created_at.wall < now

\* C5: in every state no two User rows share an upstream account id, an
\* api_key or a user_id, so the keys accepted for one account are at most one.
AcceptedKeys(a) == {x.api_key : x \in ExistingUsers(users, a)}

C5_OneUserPerAccount ==
    /\ \A x, y \in users :
          x # y => /\ x.spotify_user_id # y.spotify_user_id
                   /\ x.api_key # y.api_key
                   /\ x.user_id # y.user_id
    /\ \A a \in Accounts : Cardinality(AcceptedKeys(a)) <= 1

\* two callbacks of one account both found no User; one insert was refused
C5_Witness ==
    \E c, d \in Callbacks :
        /\ cb[c].account = cb[d].account
        /\ cb[c].created = "created"
        /\ cb[d].created = "integrity_error"
        /\ Cardinality(ExistingUsers(users, cb[c].account)) = 1

\* C11: in every reachable state, also after logins of one user whose
\* create_user_session calls overlapped, a user has at most one session that
\* has not expired.
LiveSessionsOf(u) == {x \in SessionsOf(sessions, u) : x.expires_at.wall > now}

C11_OneLiveSessionPerUser == \A u \in UserIds : Cardinality(LiveSessionsOf(u)) <= 1

\* C10: the commit of create_user_session for a user whose sessions were all
\* seen by its DELETE leaves that user exactly one session, the new one, made
\* with the user's key and 30 days to live; no lookup returns a session it
\* replaced; the sessions of the other users are as before.
C10_CommitStep ==
    \A c \in Callbacks :
        (cb[c].pc = "session_commit" /\ cb'[c].outcome = "Succeeded") =>
            LET u == cb[c].user.user_id
                A == SessionsOf(sessions, u)
                B == SessionsOf(sessions', u)
            IN  /\ {x \in sessions' : x.user_id # u} = {x \in sessions : x.user_id # u}
                /\ A \subseteq cb[c].deleted =>
                      /\ Cardinality(B) = 1
                      /\ \A x \in B :
                            /\ x.api_key = cb[c].api_key
                            /\ x.created_at.wall = now
                            /\ x.expires_at.wall = now + 30 * 24 * 3600
                      /\ \A key \in ApiKeys :
                            ActiveSessions(sessions', key, now) \cap (A \ B) = {}
                      /\ \A x \in A \ B, y \in sessions' : y.session_id # x.session_id
                             \/ y \in B

C10_NewSessionReplacesOld == [][C10_CommitStep]_vars

\* a second login of a user, after time has passed, ended with one session
C10_Witness ==
    \E c, d \in Callbacks :
        /\ Succeeded(c) /\ Succeeded(d) /\ cb[c].account = cb[d].account
        /\ cb[c].created = "created" /\ cb[d].created = "existing"
        /\ \E x \in sessions :
              /\ SessionsOf(sessions, cb[d].user.user_id) = {x}
              /\ x.created_at.wall > cb[d].user.created_at.wall

\* C21: a callback whose code exchange or profile fetch fails ends Failed in
\* that step; the step leaves the users, the token pairs and the sessions as
\* they were, and up to that step the request has persisted nothing: it holds
\* no user and no key.
C21_BeforePersist ==
    \A c \in Callbacks :
        cb[c].pc \in {"exchange", "profile"} =>
            cb[c].user = None /\ cb[c].api_key = "" /\ cb[c].created = ""

C21_FailStep ==
    \A c \in Callbacks :
        (cb[c].pc \in {"exchange", "profile"} /\ cb'[c].pc = "done") =>
            /\ cb'[c].outcome = "Failed"
            /\ cb'[c].user = None
            /\ users' = users
            /\ tokens' = tokens
            /\ sessions' = sessions

C21_UpstreamFailureNoPersistence == [](C21_BeforePersist) /\ [][C21_FailStep]_vars

\* one request failed at the exchange, one at the profile, and the store is empty
C21_Witness ==
    \E c, d \in Callbacks :
        /\ cb[c].pc = "done" /\ cb[c].outcome = "Failed" /\ cb[c].upstream_calls = 1
        /\ cb[d].pc = "done" /\ cb[d].outcome = "Failed" /\ cb[d].upstream_calls = 2
        /\ cb[d].created = ""
        /\ users = {} /\ tokens = {} /\ sessions = {}

\* C22: the steps of a callback run in the order exchange, profile, user,
\* tokens, session, and at the step that ends it Succeeded the store holds the
\* User of the account, that user's pair with the tokens of this exchange, and
\* exactly one session of that user, carrying the user's api_key.
C22_Order ==
    \A c \in Callbacks :
        /\ cb[c].pc = "profile" => cb[c].upstream_calls = 1 /\ cb[c].user = None
        /\ cb[c].pc \in {"create_user", "insert_user"} =>
              cb[c].upstream_calls = 2 /\ cb[c].user = None
        /\ cb[c].pc = "store_tokens" =>
              \E x \in users : x.user_id = cb[c].user.user_id
        /\ cb[c].pc \in {"session_delete", "session_commit"} =>
              TokensOf(tokens, cb[c].user.user_id) # {}

C22_SuccessStep ==
    \A c \in Callbacks :
        (cb[c].pc # "done" /\ cb'[c].pc = "done" /\ cb'[c].outcome = "Succeeded") =>
            /\ cb[c].pc = "session_commit"
            /\ \E x \in users' :
                  /\ x.spotify_user_id = cb'[c].account
                  /\ x.user_id = cb'[c].user.user_id
                  /\ x.api_key = cb'[c].api_key
                  /\ \E t \in TokensOf(tokens', x.user_id) :
                        /\ t.access_token = [key |-> ENCRYPTION_KEY, pt |-> CodeAccess(c)]
                        /\ t.refresh_token = [key |-> ENCRYPTION_KEY, pt |-> CodeRefresh(c)]
                  /\ Cardinality(SessionsOf(sessions', x.user_id)) = 1
                  /\ \A y \in SessionsOf(sessions', x.user_id) : y.api_key = x.api_key

C22_SucceededCallbackState == [](C22_Order) /\ [][C22_SuccessStep]_vars

\* C34: the step that starts a callback gives, whatever the state parameter
\* of the request, the request record and the store it gives for every other
\* state parameter, a missing one and one that was never issued included; no
\* later step of the callback reads the parameter, which is in no record of
\* the request and in no row, so result and persisted state are the same.
C34_StartStep ==
    \A c \in Callbacks :
        (cb[c].pc = "idle" /\ cb'[c].pc # "idle") =>
            /\ \A s2 \in States :
                  cb'[c] = StartRequest(cb[c], cb'[c].account, cb'[c].has_code,
                                        cb'[c].has_error, s2)
                  \/ cb'[c] = StartRequest(cb[c], "", cb'[c].has_code,
                                           cb'[c].has_error, s2)
            /\ users' = users /\ tokens' = tokens /\ sessions' = sessions

C34_LaterSteps ==
    \A c \in Callbacks :
        (cb[c].pc \notin {"idle", "done"} /\ cb'[c] # cb[c]) => call' = call

C34_NoStateField ==
    \A c \in Callbacks : "state" \notin DOMAIN cb[c]

C34_StateIgnored ==
    [](C34_NoStateField) /\ [][C34_StartStep /\ C34_LaterSteps]_vars

\* two requests have registered their accounts, and the one that came last
\* carried a state that no login ever issued
C34_Witness ==
    /\ Succeeded(1) /\ Succeeded(2)
    /\ cb[1].account # cb[2].account
    /\ call.state = "forged"
    /\ Cardinality(users) = 2 /\ Cardinality(sessions) = 2

\* C39: a callback that ended Failed left the store as it was when it
\* started: when it ran alone on the empty store, there is no user, no token
\* pair and no session in the store.
C39_FailedCallbackLeavesNoTrace ==
    \A c \in Callbacks :
        (/\ cb[c].pc = "done" /\ cb[c].outcome = "Failed"
         /\ \A d \in Callbacks : d # c => cb[d].pc = "idle") =>
            users = {} /\ tokens = {} /\ sessions = {}

\* C20: a callback request with an error parameter, or without a code, ends
\* Failed in its first step: it has made no upstream call, holds no user, and
\* the step leaves the users, the token pairs and the sessions as they were;
\* this is so for a request with an error parameter that also has a code.
Rejected(r) == r.has_error \/ ~r.has_code

C20_RejectedState ==
    \A c \in Callbacks :
        (cb[c].pc # "idle" /\ Rejected(cb[c])) =>
            /\ cb[c].pc = "done"
            /\ cb[c].outcome = "Failed"
            /\ cb[c].upstream_calls = 0
            /\ cb[c].user = None
            /\ cb[c].created = ""

C20_RejectedStep ==
    \A c \in Callbacks :
        (cb[c].pc = "idle" /\ cb'[c].pc # "idle" /\ Rejected(cb'[c])) =>
            /\ users' = users
            /\ tokens' = tokens
            /\ sessions' = sessions

C20_BadCallbackFails == [](C20_RejectedState) /\ [][C20_RejectedStep]_vars

\* a request with both an error and a code was rejected while the store held
\* the rows of an earlier login
C20_Witness ==
    \E c, d \in Callbacks :
        /\ cb[c].pc = "done" /\ cb[c].has_error /\ cb[c].has_code
        /\ cb[c].outcome = "Failed" /\ cb[c].upstream_calls = 0
        /\ Succeeded(d)
        /\ users # {} /\ tokens # {} /\ sessions # {}

\* ======================================= session lookups and the sweep
\* C12: a lookup returns a session only if the session's api_key is the key
\* asked for and its expires_at is later than the time the lookup read for its
\* query, whether or not expired rows are still in the table.
C12_LookupNeverReturnsExpired ==
    \A l \in Lookups :
        (lk[l].pc = "done" /\ lk[l].result # None) =>
            /\ lk[l].result.api_key = lk[l].key
            /\ lk[l].result.expires_at.wall > lk[l].clock

\* one lookup got nothing for a key whose expired session is still in the
\* table, another lookup got a live session
C12_Witness ==
    \E l, m \in Lookups :
        /\ lk[l].pc = "done" /\ lk[l].result = None
        /\ \E x \in sessions : x.api_key = lk[l].key /\ x.expires_at.wall <= lk[l].clock
        /\ lk[m].pc = "done" /\ lk[m].result # None

\* C33: a step of get_session_by_api_key leaves the users and the token pairs
\* alone, adds and removes no session, and changes of the session it returns
\* last_activity only; every stored session expires 30 days after it was
\* created, however often it was looked up, and a lookup returns a session
\* only when it read its clock less than 30 days after the session was made.
SameButLastActivity(x, y) == [x EXCEPT !.last_activity = y.last_activity] = y

C33_Step ==
    \A l \in Lookups :
        lk'[l] # lk[l] =>
            /\ users' = users
            /\ tokens' = tokens
            /\ \A y \in sessions' : \E x \in sessions : SameButLastActivity(x, y)
            /\ \A x \in sessions : \E y \in sessions' : SameButLastActivity(x, y)
            /\ \A y \in sessions' \ sessions : lk'[l].result = y

C33_FixedExpiry ==
    /\ \A x \in sessions :
          x.expires_at.wall = x.created_at.wall + SessionDays * DaySecs
    /\ \A l \in Lookups :
          (lk[l].pc = "done" /\ lk[l].result # None) =>
              lk[l].clock < lk[l].result.created_at.wall + SessionDays * DaySecs

C33_LookupDoesNotExtendSession == [](C33_FixedExpiry) /\ [][C33_Step]_vars

\* one session was returned by two lookups at different times; its
\* last_activity moved and its expires_at is still 30 days from its creation
C33_Witness ==
    \E l, m \in Lookups : \E x \in sessions :
        /\ lk[l].pc = "done" /\ lk[m].pc = "done"
        /\ lk[l].result # None /\ lk[m].result = x
        /\ lk[l].result.session_id = x.session_id
        /\ lk[l].clock < lk[m].clock
        /\ x.last_activity.wall = lk[m].clock
        /\ x.expires_at.wall = x.created_at.wall + SessionDays * DaySecs

\* C13: a run of cleanup_expired_sessions removes exactly the sessions whose
\* expires_at is at or before now, reports their number, and leaves the users
\* and the token pairs alone; a run that follows a run with nothing in between
\* removes nothing.
C13_SweepStep ==
    call'.op = "cleanup_expired_sessions" =>
        /\ sessions' = {x \in sessions : x.expires_at.wall > now}
        /\ \A x \in sessions' : x.expires_at.wall > now
        /\ users' = users
        /\ tokens' = tokens
        /\ call'.expired_count = Cardinality(sessions) - Cardinality(sessions')
        /\ call.op = "cleanup_expired_sessions" => sessions' = sessions

C13_SweepDeletesExactlyExpired == [][C13_SweepStep]_vars

\* a run removed the session that expired a moment ago and left a live one
C13_Witness ==
    /\ call.op = "cleanup_expired_sessions"
    /\ call.expired_count = 1
    /\ now > 0
    /\ \E x \in sessions : x.expires_at.wall > now
    /\ \A x \in sessions : x.expires_at.wall # now

\* C14: a run of the sweep removes no session a lookup at that instant would
\* return, and every lookup whose query found a session returns that session,
\* as it would with no sweep running.
C14_SweepStep ==
    call'.op = "cleanup_expired_sessions" =>
        \A key \in PresentedKeys :
            ActiveSessions(sessions', key, now) = ActiveSessions(sessions, key, now)

C14_LookupState ==
    \A l \in Lookups :
        (lk[l].pc = "done" /\ lk[l].session # None) =>
            /\ lk[l].result # None
            /\ lk[l].result.session_id = lk[l].session.session_id

C14_SweepIsAdvisory == [](C14_LookupState) /\ [][C14_SweepStep]_vars

\* ================================================= key validation and revoke
\* C15: after a revoke of a user has succeeded, the store holds no User, no
\* token pair and no session of that user, and the user's api_key finds no
\* user and no session.
Revoked(k) == gk[k].pc = "done" /\ gk[k].handler = "auth_revoke" /\ gk[k].status = 200

C15_RevokeRemovesEverything ==
    \A k \in KeyCalls :
        Revoked(k) =>
            LET u == gk[k].result.user_id
            IN  /\ \A x \in users : x.user_id # u
                /\ TokensOf(tokens, u) = {}
                /\ SessionsOf(sessions, u) = {}
                /\ \A x \in users : x.api_key # gk[k].key
                /\ ActiveSessions(sessions, gk[k].key, now) = {}

\* C19: no step lowers the last_active of a user, and the commit of a
\* successful get_user_by_api_key leaves a last_active that is not earlier
\* than the one stored before.
C19_Step ==
    \A x \in users : \A y \in users' :
        x.user_id = y.user_id => y.last_active.wall >= x.last_active.wall

C19_LastActiveMonotonic == [][C19_Step]_vars

\* C32: the steps of get_user_by_api_key leave the token pairs and the
\* sessions alone and remove and add no user; the one row they change is the
\* user they return, and of that row only last_active.  A lookup whose key no
\* user has changes nothing and returns none.
InLookup(k) == gk[k].pc \in {"idle", "commit"}

SameButLastActive(x, y) == [x EXCEPT !.last_active = y.last_active] = y

C32_Step ==
    \A k \in KeyCalls :
        (InLookup(k) /\ gk'[k] # gk[k]) =>
            /\ tokens' = tokens
            /\ sessions' = sessions
            /\ \A y \in users' : \E x \in users : SameButLastActive(x, y)
            /\ \A x \in users : \E y \in users' : SameButLastActive(x, y)
            /\ \A y \in users' \ users : gk'[k].result = y
            /\ (gk[k].pc = "idle" /\ \A x \in users : x.api_key # gk'[k].key) =>
                  /\ users' = users
                  /\ gk'[k].pc = "done"
                  /\ gk'[k].result = None

C32_LookupTouchesOnlyLastActive == [][C32_Step]_vars

\* a status request of user u1, made after the clock moved, has returned the
\* user with the new last_active, and a request with an unknown key returned
\* none; tokens and sessions are those of the start
C32_Witness ==
    \E k, j \in KeyCalls :
        /\ gk[k].pc = "done" /\ gk[k].handler = "auth_status" /\ gk[k].key = "key1"
        /\ gk[k].result \in users
        /\ gk[k].result.last_active.wall > 0
        /\ gk[j].pc = "done" /\ gk[j].key = "bad" /\ gk[j].result = None
        /\ ~gk[j].io_failed
        /\ tokens = InitTokens

\* C35: no step changes the user_id, the api_key or the account id of a user
\* that is in the store before and after the step: whoever has one of the
\* three values after the step has all three as before.
SameIdentity(x, y) ==
    /\ x.user_id = y.user_id
    /\ x.api_key = y.api_key
    /\ x.spotify_user_id = y.spotify_user_id

C35_Step ==
    \A x \in users : \A y \in users' :
        (x.user_id = y.user_id \/ x.api_key = y.api_key
            \/ x.spotify_user_id = y.spotify_user_id) => SameIdentity(x, y)

C35_IdentityImmutable == [][C35_Step]_vars

\* user u1 was looked up after the clock moved and logged in again, and has
\* the identity of the start with a later last_active; user u2 was revoked
C35_Witness ==
    /\ \E x \in users :
          /\ SameIdentity(x, UserRow("u1", "key1", "sp1", "name1", "mail1", 0))
          /\ x.last_active.wall > 0
    /\ \A x \in users : x.user_id # "u2"
    /\ \E k \in KeyCalls : Revoked(k) /\ gk[k].key = "key2"

\* C36: in every state every stored token pair and every stored session
\* belongs to a user that is in the store, and every session holds the
\* api_key of its user.
C36_ReferentialIntegrity ==
    /\ \A t \in tokens : \E x \in users : x.user_id = t.user_id
    /\ \A y \in sessions :
          \E x \in users : x.user_id = y.user_id /\ x.api_key = y.api_key

\* C25: a request to auth_status or auth_revoke whose Authorization header is
\* missing, does not start with "Bearer ", or carries a key that no user has,
\* is answered 401 in its first step, and that step deletes and changes
\* nothing in the store.
Unauthenticated(request, U) ==
    \/ ~StartsWithBearer(request.header)
    \/ \A x \in U : x.api_key # request.header.credentials

C25_Step ==
    \A k \in KeyCalls :
        (gk[k].pc = "idle" /\ gk'[k].pc # "idle" /\ Unauthenticated(gk'[k], users)) =>
            /\ gk'[k].pc = "done"
            /\ gk'[k].status = 401
            /\ users' = users /\ tokens' = tokens /\ sessions' = sessions

C25_State ==
    \A k \in KeyCalls :
        (gk[k].pc = "done" /\ ~StartsWithBearer(gk[k].header)) =>
            gk[k].status = 401 /\ gk[k].user = None /\ gk[k].result = None

C25_UnauthenticatedIs401 == [](C25_State) /\ [][C25_Step]_vars

\* a revoke with a Basic header that holds the key of user u1, one with no
\* header and one with a key no user has were answered 401 or are still to
\* come, and u1 is still stored
C25_Witness ==
    \E k, j \in KeyCalls :
        /\ gk[k].pc = "done" /\ gk[k].handler = "auth_revoke" /\ gk[k].status = 401
        /\ gk[k].header = [scheme |-> "Basic", credentials |-> "key1"]
        /\ gk[j].pc = "done" /\ gk[j].status = 401
        /\ gk[j].header = Bearer("bad") /\ ~gk[j].io_failed
        /\ \E x \in users : x.api_key = "key1"
        /\ tokens = InitTokens

\* =========================================================== the middleware
Authenticating(m) == mw[m].type = "http" /\ IsMcpPath(mw[m].path) /\ mw[m].pc # "idle"

HasBearerKey(header) == StartsWithBearer(header) /\ header.credentials # ""

\* C23: a request with a Bearer header that holds a key is authenticated with
\* that key, whatever its token parameter holds; the token parameter is the
\* key only of a request with no Bearer key; the user put on the request is
\* the user of the key so chosen.
C23_HeaderTakesPrecedence ==
    \A m \in Requests :
        Authenticating(m) =>
            /\ HasBearerKey(mw[m].header) =>
                  /\ mw[m].api_key = mw[m].header.credentials
                  /\ mw[m].auth_method = "header"
            /\ mw[m].auth_method = "url_param" =>
                  /\ ~HasBearerKey(mw[m].header)
                  /\ mw[m].api_key = mw[m].token[1]
            /\ mw[m].authenticated =>
                  /\ mw[m].state.api_key = mw[m].api_key
                  /\ mw[m].state.user.api_key = mw[m].api_key

\* header and parameter hold different keys, and the request went on under
\* the key of the header: as its user, or as nobody when no user has that key
C23_Witness ==
    \E m, q \in Requests :
        /\ mw[m].pc = "done" /\ mw[m].header = Bearer("key1") /\ mw[m].token = <<"key2">>
        /\ mw[m].authenticated /\ mw[m].state.user_id = "u1"
        /\ mw[q].pc = "done" /\ mw[q].header = Bearer("bad") /\ mw[q].token = <<"key2">>
        /\ ~mw[q].authenticated /\ mw[q].error = "Invalid API key"

\* C24: every request is handed to the application exactly once, never
\* before its authentication is over and never twice, whether it was
\* authenticated or not; request.state holds a user only when a user has the
\* key the request presented, and then it holds that user.
C24_ForwardedOnce ==
    \A m \in Requests :
        /\ mw[m].pc \in {"idle", "lookup", "forward", "done"}
        /\ mw[m].app_calls = IF mw[m].pc = "done" THEN 1 ELSE 0

C24_ContextOnlyForUser ==
    \A m \in Requests :
        mw[m].state # None =>
            /\ Authenticating(m)
            /\ mw[m].authenticated
            /\ mw[m].api_key # ""
            /\ \E x \in users :
                  /\ x.api_key = mw[m].api_key
                  /\ x.user_id = mw[m].state.user_id
                  /\ mw[m].state.user.user_id = x.user_id

C24_Step ==
    \A m \in Requests :
        mw'[m].pc = "done" /\ mw[m].pc # "done" =>
            mw[m].pc = "forward" /\ mw'[m].app_calls = mw[m].app_calls + 1

C24_NeverBlocks ==
    [](C24_ForwardedOnce /\ C24_ContextOnlyForUser) /\ [][C24_Step]_vars

\* one request with no key at all and one with a key no user has were both
\* handed on, without a user context
C24_Witness ==
    \E m, q \in Requests :
        /\ mw[m].pc = "done" /\ mw[m].app_calls = 1 /\ mw[m].error = "Missing authentication"
        /\ mw[m].state = None
        /\ mw[q].pc = "done" /\ mw[q].app_calls = 1 /\ mw[q].error = "Invalid API key"
        /\ mw[q].state = None

\* ============================================================ the generators
\* C30: generate_api_key(n) returns a text of exactly n characters, all of
\* them ASCII letters or digits, and of 32 characters when it is called with
\* no length; generate_user_id returns a text of 36 characters.
C30_GeneratedShapes ==
    /\ (gen.pc = "done" /\ gen.fn = "generate_api_key") =>
          /\ gen.out.len = IF gen.args = << >> THEN 32 ELSE gen.args[1]
          /\ gen.out.alnum
          /\ gen.out.len > 0 => IsAlnum(gen.out.last)
    /\ (gen.pc = "done" /\ gen.fn = "generate_user_id") => gen.out.len = 36

\* the default call has returned its 32 characters
C30_Witness ==
    /\ gen.pc = "done" /\ gen.fn = "generate_api_key" /\ gen.args = << >>
    /\ gen.out.len = 32 /\ gen.out.alnum /\ gen.out.last = "Z"

\* C28: a lookup whose store query failed ends with an outcome other than
\* that of a key no user has, which is the answer 401 "Invalid API key".
NoMatchOutcome == [status |-> 401, error |-> "Invalid API key"]

Outcome(request) == [status |-> request.status, error |-> request.error]

C28_StoreFailureSurfaced ==
    \A k \in KeyCalls :
        (gk[k].pc = "done" /\ gk[k].io_failed) => Outcome(gk[k]) # NoMatchOutcome

\* ========================================================= the token pairs
\* C16: in every state both token fields of every stored pair are texts made
\* by encrypt_token, under the key of this process or of an earlier one; no
\* store after a registration, a re-authentication or a refresh leaves a token
\* in the clear.
Keys == {ENCRYPTION_KEY, OldKey}

C16_TokensStoredEncrypted ==
    \A t \in tokens : t.access_token.key \in Keys /\ t.refresh_token.key \in Keys

\* a pair written after a refresh lies next to a pair written after a login
C16_Witness ==
    \E t, v \in tokens :
        /\ t.user_id # v.user_id
        /\ stored[t.user_id] # None /\ stored[t.user_id].scope = "null"
        /\ stored[v.user_id] # None /\ stored[v.user_id].scope = "scopes"
        /\ t.access_token = [key |-> ENCRYPTION_KEY, pt |-> stored[t.user_id].access_token]
        /\ v.refresh_token = [key |-> ENCRYPTION_KEY, pt |-> stored[v.user_id].refresh_token]

\* C17: get_user_tokens for a user whose pair was stored by store_spotify_tokens
\* returns the access token and the refresh token of the latest such call,
\* and its expires_at: the same time of day in UTC, which the column keeps
\* without a timezone.
C17_GetStep ==
    (call'.op = "get_user_tokens" /\ stored[call'.user_id] # None) =>
        LET args == stored[call'.user_id]
        IN  /\ call'.result # None
            /\ call'.result.access_token = args.access_token
            /\ call'.result.refresh_token = args.refresh_token
            /\ call'.result.expires_at.wall = args.expires_at.wall - args.expires_at.off

StoreOps == {"store_spotify_tokens", "update_user_tokens"}

C18_StoreStep ==
    call'.op \in StoreOps =>
        LET u == call'.user_id
            args == stored'[u]
            rows == TokensOf(tokens', u)
        IN  /\ Cardinality(rows) = 1
            /\ \A t \in rows :
                  /\ t.access_token = [key |-> ENCRYPTION_KEY, pt |-> args.access_token]
                  /\ t.refresh_token = [key |-> ENCRYPTION_KEY, pt |-> args.refresh_token]
                  /\ t.expires_at.wall = args.expires_at.wall
                  /\ t.scope = args.scope
            /\ call'.op = "update_user_tokens" => args.scope = "null"
            /\ {t \in tokens' : t.user_id # u} = {t \in tokens : t.user_id # u}

C18_StoreReplacesWholesale == [][C18_StoreStep]_vars

\* a pair with a scope was replaced by a pair without one, next to the pair of
\* the other user
C18_Witness ==
    \E t, v \in tokens :
        /\ call.op = "update_user_tokens" /\ call.user_id = t.user_id
        /\ t.scope = "null"
        /\ t.access_token.pt # InitAccess(t.user_id)
        /\ v.user_id # t.user_id /\ v.scope = "scopes"

\* ====================================================== the tool-call requests
UsersOfKey(key) == {x.user_id : x \in {y \in users : y.api_key = key}}

\* C3: under any interleaving of the requests, a tool call that resolves a user
\* resolves the user whose key its own request carried, never the user of
\* another request.
C3_OwnUserResolved ==
    \A r \in Requests :
        (req[r].pc = "done" /\ req[r].status = 200 /\ req[r].user_context # None) =>
            req[r].user_context.user_id \in UsersOfKey(req[r].key)

\* C38: a tool call whose own request carries no API key is given no user
\* context by get_user_from_request, whatever requests came before it.
C38_NoKeyNoUser ==
    \A r \in Requests :
        (req[r].pc = "done" /\ req[r].route = "mcp" /\ req[r].key = "") =>
            req[r].user_context = None

\* ===================================================== tokens_need_refresh
\* C9: tokens_need_refresh(expires_at) is true exactly when expires_at, read
\* as UTC when it has no timezone, is at most now + 5 minutes: true at
\* now + 4min59s and at now + 5min, false at now + 5min1s.
C9_FreshnessBoundary ==
    ret_needs_refresh # << >> =>
        LET t == IF arg_expires_at.aware
                 THEN arg_expires_at.wall - arg_expires_at.off
                 ELSE arg_expires_at.wall
        IN  /\ ret_needs_refresh[1] = (t <= now + 300)
            /\ t = now + 299 => ret_needs_refresh[1] = TRUE
            /\ t = now + 300 => ret_needs_refresh[1] = TRUE
            /\ t = now + 301 => ret_needs_refresh[1] = FALSE

C9_Witness ==
    /\ ret_needs_refresh = <<TRUE>>
    /\ ~arg_expires_at.aware
    /\ arg_expires_at.wall = now + 300
====
